---- MODULE Spec2Model ----
(***************************************************************************)
(* Model of the TrueType font-atlas generator of OSM-Viewer (namespace     *)
(* Font, src/src/window.h lines 52-812).  A font is a byte buffer; every   *)
(* table access of the code is modelled as a read at a byte offset of that *)
(* buffer.  Pointers into the buffer are byte offsets relative to `data`.  *)
(***************************************************************************)
EXTENDS Integers, Sequences, FiniteSets, TLC

VARIABLES
    font,          \* the loaded file: [data, fontSize, beyond]
    pc,            \* position inside getTTFAtlas
    err,           \* message of the OSMError thrown, "" when none
    info,          \* TTFData built by findAllTables
    idx,           \* loop index i / j of getGlyphRects / renderGlyphs
    rects,         \* GlyphRect rects[charCount]
    has_missing_glyph,
    atlas,         \* the local Atlas of getTTFAtlas
    missing_glyph, \* local of renderGlyphs
    rendered,      \* history: the renderGlyph calls made, in order
    returned,      \* what the caller of getTTFAtlas received
    maxRead,       \* history: highest byte offset of the buffer read so far
    call           \* a single call of a pure function: its arguments and result

vars == <<font, pc, err, info, idx, rects, has_missing_glyph, atlas,
          missing_glyph, rendered, returned, maxRead, call>>

atlasVars == <<font, pc, err, info, idx, rects, has_missing_glyph, atlas,
               missing_glyph, rendered, returned, maxRead>>

----------------------------------------------------------------------------
(* Bounds of the model *)

\* Font::charCount is 95 (endChar - firstChar); the model keeps the first
\* charCount characters of the range.
charCount == 3

\* Largest number of segments of a format-4 subtable drawn as input.
MaxSegs == 3

(* Program constants *)
firstChar == 32
AtlasWidth == 256
padding == 1

----------------------------------------------------------------------------
(* Integer helpers *)

Pow2(n) == 2 ^ n

Max(a, b) == IF a >= b THEN a ELSE b

Min(a, b) == IF a <= b THEN a ELSE b

\* conversion of an int to uint16_t / int16_t
ToUint16(v) == v % 65536

ToInt16(v) == LET u == v % 65536 IN IF u >= 32768 THEN u - 65536 ELSE u

\* b & m for a one-bit mask m
HasFlag(b, m) == (b \div m) % 2 = 1

----------------------------------------------------------------------------
(* Raw byte access.  `data` is the font buffer, offsets are 0-based.  A     *)
(* read outside the buffer is undefined behaviour: the byte obtained is    *)
(* whatever lies beyond the allocation, font.beyond in the model.          *)

Byte(data, p) ==
    IF p >= 0 /\ p < Len(data) THEN data[p + 1] ELSE font.beyond

readUint16(data, p) == ToUint16(Byte(data, p) * 256 + Byte(data, p + 1))

readInt16(data, p) == ToInt16(Byte(data, p) * 256 + Byte(data, p + 1))

\* The fonts drawn as input keep every 32-bit field below 2^31, so that the
\* value and the sums the code forms with it need no reduction modulo 2^32.
readUint32(data, p) ==
    Byte(data, p) * 16777216 + Byte(data, p + 1) * 65536
    + Byte(data, p + 2) * 256 + Byte(data, p + 3)

readInt8(data, p) ==
    LET b == Byte(data, p) IN IF b >= 128 THEN b - 256 ELSE b

\* big-endian encoders, used to lay out the input fonts
U16(v) == << (v % 65536) \div 256, v % 256 >>

U32(v) == << (v \div 16777216) % 256, (v \div 65536) % 256,
             (v \div 256) % 256, v % 256 >>

\* a pointer of TTFData: null, or data + off
NullPtr == [null |-> TRUE, off |-> 0]

Ptr(off) == [null |-> FALSE, off |-> off]

----------------------------------------------------------------------------
(* charCode2GlyphID *)

\* result of a function that may throw
Ok(v) == [thrown |-> FALSE, val |-> v, msg |-> ""]

Thrown(m) == [thrown |-> TRUE, val |-> 0, msg |-> m]

\* a search that advances on endCode <= charCode instead of endCode < charCode
RECURSIVE Search4_AdvanceOnEqual(_, _, _, _, _)
Search4_AdvanceOnEqual(data, endCode, reservedPad, searchRange, charCode) ==
    IF searchRange < 2 THEN endCode
    ELSE LET search2 == endCode + searchRange
             next == IF search2 < reservedPad
                        /\ readUint16(data, search2) <= charCode
                     THEN search2 ELSE endCode
         IN Search4_AdvanceOnEqual(data, next, reservedPad,
                                   searchRange \div 2, charCode)

\* the while loop of case 4: endCode and reservedPad are byte offsets
RECURSIVE Search4(_, _, _, _, _)
Search4(data, endCode, reservedPad, searchRange, charCode) ==
    IF searchRange < 2 THEN endCode
    ELSE LET search2 == endCode + searchRange
             next == IF search2 < reservedPad
                        /\ readUint16(data, search2) < charCode
                     THEN search2 ELSE endCode
         IN Search4(data, next, reservedPad, searchRange \div 2, charCode)

Lookup4(data, cmap, charCode) ==
    LET segCountX2 == readUint16(data, cmap + 6)
        reservedPad == cmap + 14 + segCountX2
        searchRange == readUint16(data, cmap + 8)
        endCode == Search4(data, cmap + 14 - 2, reservedPad, searchRange,
                           charCode) + 2
        startCode == endCode + 2 + segCountX2
        start == readUint16(data, startCode)
        idRangeOffset == startCode + 2 * segCountX2
        offset == readUint16(data, idRangeOffset)
    IN IF endCode = reservedPad THEN 0
       ELSE IF charCode < start THEN 0
       ELSE IF offset = 0
            THEN (charCode + readInt16(data, startCode + segCountX2)) % 65536
       ELSE readUint16(data, idRangeOffset + offset + 2 * (charCode - start))

\* the for loop of case 12: add = 2^bit runs over 2^31, 2^30, ..., 1.  With
\* nGroups below 2^31 the first iteration (i2 = 2^31) leaves i at 0.
RECURSIVE Search12(_, _, _, _, _, _)
Search12(data, group, nGroups, i, bit, charCode) ==
    IF bit < 0 THEN i
    ELSE LET i2 == i + Pow2(bit)
             next == IF i2 < nGroups
                        /\ charCode < readUint32(data, group + i2 * 12)
                     THEN i2 ELSE i
         IN Search12(data, group, nGroups, next, bit - 1, charCode)

Lookup12(data, cmap, charCode) ==
    LET nGroups == readUint32(data, cmap + 12)
        i == Search12(data, cmap + 16, nGroups, 0, 30, charCode) + 1
        group == cmap + 16 + i * 12
        endCharCode == readUint32(data, group + 4)
        startCharCode == readUint32(data, group)
        startGlyphCode == readUint32(data, group + 8)
    IN IF i = nGroups THEN 0
       ELSE IF endCharCode < charCode THEN 0
       ELSE startGlyphCode + charCode - startCharCode

\* a lookup that answers 0 for a format it does not know
charCode2GlyphID_ZeroOnUnknown(data, cmap, charCode) ==
    LET format == readUint16(data, cmap) IN
    CASE format = 0 ->
           Ok(IF charCode > 255 THEN 0
              ELSE readInt8(data, cmap + 6 + charCode))
      [] format = 4 -> Ok(Lookup4(data, cmap, charCode))
      [] format = 12 -> Ok(Lookup12(data, cmap, charCode))
      [] OTHER -> Ok(0)

\* The uint32_t returned is kept as the int with the same 32 bits, which is
\* what the callers get when they pass it on as `int glyphID`: the int8_t
\* read by case 0 stays the signed value it is.
charCode2GlyphID(data, cmap, charCode) ==
    LET format == readUint16(data, cmap) IN
    CASE format = 0 ->
           Ok(IF charCode > 255 THEN 0
              ELSE readInt8(data, cmap + 6 + charCode))
      [] format = 4 -> Ok(Lookup4(data, cmap, charCode))
      [] format = 12 -> Ok(Lookup12(data, cmap, charCode))
      [] OTHER -> Thrown("cmap format is not supported")

----------------------------------------------------------------------------
(* Format-4 subtables drawn as input.  A segment is                        *)
(* [start, end, delta, glyphs]: glyphs = << >> gives idRangeOffset 0,      *)
(* otherwise the segment maps through its own slice of glyphIdArray.       *)

RECURSIVE Flatten(_)
Flatten(ss) == IF ss = << >> THEN << >> ELSE Head(ss) \o Flatten(Tail(ss))

RECURSIVE SumLen(_, _)
SumLen(segs, k) == IF k = 0 THEN 0 ELSE Len(segs[k].glyphs) + SumLen(segs, k - 1)

\* largest power of two <= n, n >= 1
RECURSIVE FloorPow2(_)
FloorPow2(n) == IF n < 2 THEN 1 ELSE 2 * FloorPow2(n \div 2)

\* idRangeOffset of segment k: distance in bytes from its own slot to its
\* first glyphIdArray entry
RangeOffset(segs, k) ==
    IF segs[k].glyphs = << >> THEN 0
    ELSE 2 * (Len(segs) - k + 1) + 2 * SumLen(segs, k - 1)

Format4Bytes(segs) ==
    LET n == Len(segs) IN
       U16(4) \o U16(0) \o U16(0)
    \o U16(2 * n) \o U16(2 * FloorPow2(n)) \o U16(0) \o U16(0)
    \o Flatten([k \in 1..n |-> U16(segs[k].end)])
    \o U16(0)
    \o Flatten([k \in 1..n |-> U16(segs[k].start)])
    \o Flatten([k \in 1..n |-> U16(segs[k].delta)])
    \o Flatten([k \in 1..n |-> U16(RangeOffset(segs, k))])
    \o Flatten([k \in 1..n |-> Flatten([g \in 1..Len(segs[k].glyphs)
                                          |-> U16(segs[k].glyphs[g])])])

----------------------------------------------------------------------------
(* Table directory and findAllTables *)

PlatformID_UNICODE == 0
PlatformID_MICROSOFT == 3
UNICODE_VARIATION == 14
UNICODE_BMP == 1
UNICODE_UCS == 10

\* the four bytes of a table tag
TagBytes ==
    [cmap |-> <<99, 109, 97, 112>>, loca |-> <<108, 111, 99, 97>>,
     head |-> <<104, 101, 97, 100>>, glyf |-> <<103, 108, 121, 102>>,
     hhea |-> <<104, 104, 101, 97>>, hmtx |-> <<104, 109, 116, 120>>,
     maxp |-> <<109, 97, 120, 112>>]

\* !memcmp(data+loc, tag, 4)
TagAt(data, loc, tag) == \A k \in 0..3 : Byte(data, loc + k) = tag[k + 1]

RECURSIVE ScanDirectory(_, _, _, _)
ScanDirectory(data, tag, i, num_tables) ==
    IF i >= num_tables THEN 0
    ELSE IF TagAt(data, 12 + 16 * i, tag)
         THEN readUint32(data, 12 + 16 * i + 8)
         ELSE ScanDirectory(data, tag, i + 1, num_tables)

fintTableOffset(data, tag) ==
    ScanDirectory(data, tag, 0, readUint16(data, 4))

\* a test that lets every Microsoft encoding through
AcceptsEncoding_AnyMicrosoft(platformID, platformSpecificID) ==
    IF platformID = PlatformID_UNICODE
    THEN platformSpecificID # UNICODE_VARIATION
    ELSE platformID = PlatformID_MICROSOFT

\* the test of one encoding record: TRUE when the loop does not `continue`
AcceptsEncoding(platformID, platformSpecificID) ==
    IF platformID = PlatformID_UNICODE
    THEN platformSpecificID # UNICODE_VARIATION
    ELSE IF platformID = PlatformID_MICROSOFT
         THEN ~(platformSpecificID # UNICODE_BMP
                /\ platformSpecificID # UNICODE_UCS)
         ELSE FALSE

\* the loop over the encoding records; yields info.cmap
RECURSIVE SelectSubtable(_, _, _, _)
SelectSubtable(data, cmap, i, numberSubtables) ==
    IF i >= numberSubtables THEN NullPtr
    ELSE LET encoding_record == cmap + 4 + 8 * i
             platformID == readUint16(data, encoding_record)
             platformSpecificID == readUint16(data, encoding_record + 2)
         IN IF AcceptsEncoding(platformID, platformSpecificID)
            THEN Ptr(cmap + readUint32(data, encoding_record + 4))
            ELSE SelectSubtable(data, cmap, i + 1, numberSubtables)

\* `!cmap || !info.loca || ...`: cmap is an offset, the others are the
\* pointers data + offset, and data is the non-null buffer
MissingTables(cmap, loca, head, glyf, hhea, hmtx) ==
    cmap = 0 \/ loca.null \/ head.null \/ glyf.null \/ hhea.null \/ hmtx.null

findAllTables(data) ==
    LET cmap == fintTableOffset(data, TagBytes.cmap)
        loca == Ptr(fintTableOffset(data, TagBytes.loca))
        head == Ptr(fintTableOffset(data, TagBytes.head))
        glyf == Ptr(fintTableOffset(data, TagBytes.glyf))
        hhea == Ptr(fintTableOffset(data, TagBytes.hhea))
        hmtx == Ptr(fintTableOffset(data, TagBytes.hmtx))
        t == fintTableOffset(data, TagBytes.maxp)
        sub == SelectSubtable(data, cmap, 0, readUint16(data, cmap + 2))
    IN IF MissingTables(cmap, loca, head, glyf, hhea, hmtx)
       THEN Thrown("Missing tables in TTF file")
       ELSE IF sub.null
       THEN Thrown("No supported cmap encoding found (only unicode subtables are supported)")
       ELSE Ok([loca |-> loca, head |-> head, glyf |-> glyf, hhea |-> hhea,
                hmtx |-> hmtx, cmap |-> sub,
                numGlyphs |-> IF t # 0 THEN readUint16(data, t + 4)
                              ELSE 65535,
                indexToLocFormat |-> readInt16(data, head.off + 50)])

\* Highest byte offset the directory scan for `tag` reads: the count at 4..5,
\* the first byte of every record compared (the last one compared is the
\* highest), and bytes 8..11 of the match.
RECURSIVE ScanDirectoryReads(_, _, _, _)
ScanDirectoryReads(data, tag, i, num_tables) ==
    IF i >= num_tables THEN (IF i = 0 THEN 5 ELSE 12 + 16 * (i - 1))
    ELSE IF TagAt(data, 12 + 16 * i, tag) THEN 12 + 16 * i + 11
         ELSE ScanDirectoryReads(data, tag, i + 1, num_tables)

fintTableOffsetReads(data, tag) ==
    ScanDirectoryReads(data, tag, 0, readUint16(data, 4))

RECURSIVE SelectSubtableReads(_, _, _, _)
SelectSubtableReads(data, cmap, i, numberSubtables) ==
    IF i >= numberSubtables THEN cmap + 3 + 8 * i
    ELSE LET encoding_record == cmap + 4 + 8 * i
         IN IF AcceptsEncoding(readUint16(data, encoding_record),
                               readUint16(data, encoding_record + 2))
            THEN encoding_record + 7
            ELSE SelectSubtableReads(data, cmap, i + 1, numberSubtables)

\* the largest element of a non-empty set of integers
MaxOf(S) == CHOOSE x \in S : \A y \in S : y <= x

findAllTablesReads(data) ==
    LET r == findAllTables(data)
        cmap == fintTableOffset(data, TagBytes.cmap)
        t == fintTableOffset(data, TagBytes.maxp)
        dirReads == MaxOf({fintTableOffsetReads(data, TagBytes[n]) :
                           n \in {"cmap", "loca", "head", "glyf", "hhea",
                                  "hmtx"}})
    IN IF r.thrown /\ r.msg = "Missing tables in TTF file" THEN dirReads
       ELSE MaxOf({dirReads, fintTableOffsetReads(data, TagBytes.maxp),
                   IF t # 0 THEN t + 5 ELSE 0,
                   SelectSubtableReads(data, cmap, 0,
                                       readUint16(data, cmap + 2)),
                   IF r.thrown THEN 0
                   ELSE fintTableOffset(data, TagBytes.head) + 51})

----------------------------------------------------------------------------
(* Glyph access *)

getGlyfOffset(data, inf, glyphID) ==
    IF glyphID >= inf.numGlyphs THEN NullPtr
    ELSE IF inf.indexToLocFormat = 0
         THEN LET start == readUint16(data, inf.loca.off + 2 * glyphID) * 2
                  end == readUint16(data, inf.loca.off + 2 * glyphID + 2) * 2
              IN IF start = end THEN NullPtr ELSE Ptr(inf.glyf.off + start)
    ELSE IF inf.indexToLocFormat = 1
         THEN LET start == readUint32(data, inf.loca.off + 4 * glyphID)
                  end == readUint32(data, inf.loca.off + 4 * glyphID + 4)
              IN IF start = end THEN NullPtr ELSE Ptr(inf.glyf.off + start)
    ELSE NullPtr

getGlyfOffsetReads(data, inf, glyphID) ==
    IF glyphID >= inf.numGlyphs THEN 0
    ELSE IF inf.indexToLocFormat = 0 THEN inf.loca.off + 2 * glyphID + 3
    ELSE IF inf.indexToLocFormat = 1 THEN inf.loca.off + 4 * glyphID + 7
    ELSE 0

\* The scale is the float fontSize / (ascent - descent); the model keeps it
\* as the exact fraction num / den (the fonts drawn have den a power of two
\* dividing or divided by fontSize, for which the float is exact).
getScale(data, inf, fontSize) ==
    LET ascent == readInt16(data, inf.hhea.off + 4)
        descent == readInt16(data, inf.hhea.off + 6)
    IN [num |-> fontSize, den |-> ascent - descent]

\* (int) floor(v * scale) and (int) ceil(v * scale), for scale.den > 0
FloorScaled(v, scale) == (v * scale.num) \div scale.den

CeilScaled(v, scale) == 0 - ((0 - v * scale.num) \div scale.den)

getGlyphBox(data, inf, glyphID, scale) ==
    LET g == getGlyfOffset(data, inf, glyphID) IN
    IF ~g.null
    THEN [x0 |-> FloorScaled(readInt16(data, g.off + 2), scale),
          y0 |-> FloorScaled(0 - readInt16(data, g.off + 8), scale),
          x1 |-> CeilScaled(readInt16(data, g.off + 6), scale),
          y1 |-> CeilScaled(0 - readInt16(data, g.off + 4), scale)]
    ELSE [x0 |-> 0, y0 |-> 0, x1 |-> 0, y1 |-> 0]

getGlyphBoxReads(data, inf, glyphID) ==
    LET g == getGlyfOffset(data, inf, glyphID) IN
    Max(getGlyfOffsetReads(data, inf, glyphID),
        IF g.null THEN 0 ELSE g.off + 9)

\* ComponentFlag
ARG_1_AND_2_ARE_WORDS == 1
ARGS_ARE_XY_VALUES == 2
WE_HAVE_A_SCALE == 8
MORE_COMPONENTS == 32
WE_HAVE_AN_X_AND_Y_SCALE == 64
WE_HAVE_A_TWO_BY_TWO == 128

\* bytes one component record takes after its flags and glyph index
ComponentArgBytes(flags) ==
    (IF HasFlag(flags, ARG_1_AND_2_ARE_WORDS) THEN 4 ELSE 2)
    + (IF HasFlag(flags, WE_HAVE_A_SCALE) THEN 2
       ELSE IF HasFlag(flags, WE_HAVE_AN_X_AND_Y_SCALE) THEN 4
       ELSE IF HasFlag(flags, WE_HAVE_A_TWO_BY_TWO) THEN 8 ELSE 0)

\* How getGlyphVertices ends for a glyph: "ok" (a vertex list is returned),
\* "thrown" (point matching), or "overflow" when the recursion into
\* components is deeper than `fuel` calls.  The vertex list itself is not
\* part of this state.
RECURSIVE GlyphVerticesEnd(_, _, _, _)
RECURSIVE ComponentsEnd(_, _, _, _)
GlyphVerticesEnd(data, inf, glyphID, fuel) ==
    LET g == getGlyfOffset(data, inf, glyphID) IN
    IF g.null THEN "ok"
    ELSE IF readInt16(data, g.off) >= 0 THEN "ok"
    ELSE IF fuel = 0 THEN "overflow"
    ELSE ComponentsEnd(data, inf, g.off + 10, fuel)

ComponentsEnd(data, inf, p, fuel) ==
    LET flags == ToUint16(readInt16(data, p))
        glyphIndex == ToUint16(readInt16(data, p + 2))
        sub == GlyphVerticesEnd(data, inf, glyphIndex, fuel - 1)
    IN IF ~HasFlag(flags, ARGS_ARE_XY_VALUES) THEN "thrown"
       ELSE IF sub # "ok" THEN sub
       ELSE IF ~HasFlag(flags, MORE_COMPONENTS) THEN "ok"
       ELSE ComponentsEnd(data, inf, p + 4 + ComponentArgBytes(flags), fuel)

\* Deepest nesting of component calls the model follows.
MaxNesting == 4

\* How renderGlyph ends: "skipped" (empty box, nothing decoded or written),
\* "drawn" (the glyph's rows were written at img), "thrown" or "overflow".
renderGlyph(data, inf, scale, glyphID) ==
    LET box == getGlyphBox(data, inf, glyphID, scale)
        glyphW == box.x1 - box.x0
        glyphH == box.y1 - box.y0
        v == GlyphVerticesEnd(data, inf, glyphID, MaxNesting)
    IN IF glyphW = 0 \/ glyphH = 0 THEN "skipped"
       ELSE IF v = "ok" THEN "drawn" ELSE v

----------------------------------------------------------------------------
(* getGlyphVertices: the vertex list of a glyph.  A vertex is a record     *)
(* [type, x, y] for START and LINE and [type, x, y, cx, cy] for QUAD:      *)
(* setStart and setLine leave cx and cy unassigned, and no reader uses     *)
(* them for these types.                                                   *)

\* OutlineFlag
ON_CURVE == 1
X_SHORT == 2
Y_SHORT == 4
REPEAT == 8
X_POSITIVE == 16
Y_POSITIVE == 32

\* VertexType
START == 0
LINE == 1
QUAD == 2

setStart(x, y) == [type |-> START, x |-> ToInt16(x), y |-> ToInt16(y)]

setLine(x, y) == [type |-> LINE, x |-> ToInt16(x), y |-> ToInt16(y)]

setQuad(x, y, cx, cy) ==
    [type |-> QUAD, x |-> ToInt16(x), y |-> ToInt16(y),
     cx |-> ToInt16(cx), cy |-> ToInt16(cy)]

\* the loop "Read flags": n flags from offset p on, a flag with REPEAT is
\* followed by the count of its repetitions
RECURSIVE ReadFlags(_, _, _, _, _, _)
ReadFlags(data, p, n, flagcount, flag, acc) ==
    IF Len(acc) >= n THEN [flags |-> acc, p |-> p]
    ELSE IF flagcount # 0
         THEN ReadFlags(data, p, n, flagcount - 1, flag, Append(acc, flag))
    ELSE LET f == Byte(data, p) IN
         IF HasFlag(f, REPEAT)
         THEN ReadFlags(data, p + 2, n, Byte(data, p + 1), f, Append(acc, f))
         ELSE ReadFlags(data, p + 1, n, 0, f, Append(acc, f))

\* the loops "Read xCoordinates" / "Read yCoordinates": short is X_SHORT or
\* Y_SHORT, same is X_SAME (= X_POSITIVE) or Y_SAME; v is the int16_t
\* running coordinate
RECURSIVE ReadCoordinates(_, _, _, _, _, _, _)
ReadCoordinates(data, p, flags, short, same, v, acc) ==
    IF Len(acc) >= Len(flags) THEN [vals |-> acc, p |-> p]
    ELSE LET flag == flags[Len(acc) + 1] IN
         IF HasFlag(flag, short)
         THEN LET d == Byte(data, p)
                  w == ToInt16(v + (IF HasFlag(flag, same) THEN d ELSE 0 - d))
              IN ReadCoordinates(data, p + 1, flags, short, same, w,
                                 Append(acc, w))
         ELSE IF ~HasFlag(flag, same)
         THEN LET w == ToInt16(v + readInt16(data, p))
              IN ReadCoordinates(data, p + 2, flags, short, same, w,
                                 Append(acc, w))
         ELSE ReadCoordinates(data, p, flags, short, same, v, Append(acc, v))

\* vertices[off + j]; an index past the points read is a slot never written
PointAt(pts, j) ==
    IF j + 1 \in 1..Len(pts) THEN pts[j + 1]
    ELSE [x |-> 0, y |-> 0, flag |-> 0]

\* (a + b) >> 1 on int
Half(a, b) == (a + b) \div 2

\* the loop over the points j..endPt of one contour; st holds the vertices
\* emitted so far and the locals lastOff, cx, cy
RECURSIVE ContourPoints(_, _, _, _)
ContourPoints(pts, j, endPt, st) ==
    IF j > endPt THEN st
    ELSE LET q == PointAt(pts, j) IN
         IF HasFlag(q.flag, ON_CURVE)
         THEN ContourPoints(pts, j + 1, endPt,
                [out |-> Append(st.out,
                                IF st.lastOff
                                THEN setQuad(q.x, q.y, st.cx, st.cy)
                                ELSE setLine(q.x, q.y)),
                 lastOff |-> FALSE, cx |-> st.cx, cy |-> st.cy])
         ELSE ContourPoints(pts, j + 1, endPt,
                [out |-> IF st.lastOff
                         THEN Append(st.out,
                                     setQuad(Half(st.cx, q.x),
                                             Half(st.cy, q.y), st.cx, st.cy))
                         ELSE st.out,
                 lastOff |-> TRUE, cx |-> q.x, cy |-> q.y])

\* a loop over the contours that closes a contour whose first point is off
\* the curve on that point, not on the contour's start
RECURSIVE Contours_CloseOnFirstPoint(_, _, _, _, _, _, _)
Contours_CloseOnFirstPoint(data, endPtsOfContours, numberOfContours, pts, i, j, out) ==
    IF i >= numberOfContours THEN out
    ELSE LET firstPt == PointAt(pts, j)
             nextPt == PointAt(pts, j + 1)
             firstOnCurve == HasFlag(firstPt.flag, ON_CURVE)
             nextOnCurve == HasFlag(nextPt.flag, ON_CURVE)
             x0 == IF firstOnCurve THEN firstPt.x
                   ELSE IF nextOnCurve THEN nextPt.x
                   ELSE Half(firstPt.x, nextPt.x)
             y0 == IF firstOnCurve THEN firstPt.y
                   ELSE IF nextOnCurve THEN nextPt.y
                   ELSE Half(firstPt.y, nextPt.y)
             j1 == IF ~firstOnCurve /\ nextOnCurve THEN j + 1 ELSE j
             endPt == readUint16(data, endPtsOfContours + 2 * i)
             st == ContourPoints(pts, j1 + 1, endPt,
                                 [out |-> Append(out, setStart(x0, y0)),
                                  lastOff |-> FALSE, cx |-> 0, cy |-> 0])
             closed ==
                 IF firstOnCurve
                 THEN Append(st.out,
                             IF st.lastOff THEN setQuad(x0, y0, st.cx, st.cy)
                             ELSE setLine(x0, y0))
                 ELSE Append(IF st.lastOff
                             THEN Append(st.out,
                                         setQuad(Half(st.cx, firstPt.x),
                                                 Half(st.cy, firstPt.y),
                                                 st.cx, st.cy))
                             ELSE st.out,
                             setQuad(firstPt.x, firstPt.y,
                                     firstPt.x, firstPt.y))
         IN Contours_CloseOnFirstPoint(data, endPtsOfContours, numberOfContours, pts, i + 1,
                     Max(j1 + 1, endPt + 1), closed)

\* the loop over the contours, from contour i whose first point is j
RECURSIVE Contours(_, _, _, _, _, _, _)
Contours(data, endPtsOfContours, numberOfContours, pts, i, j, out) ==
    IF i >= numberOfContours THEN out
    ELSE LET firstPt == PointAt(pts, j)
             nextPt == PointAt(pts, j + 1)
             firstOnCurve == HasFlag(firstPt.flag, ON_CURVE)
             nextOnCurve == HasFlag(nextPt.flag, ON_CURVE)
             x0 == IF firstOnCurve THEN firstPt.x
                   ELSE IF nextOnCurve THEN nextPt.x
                   ELSE Half(firstPt.x, nextPt.x)
             y0 == IF firstOnCurve THEN firstPt.y
                   ELSE IF nextOnCurve THEN nextPt.y
                   ELSE Half(firstPt.y, nextPt.y)
             j1 == IF ~firstOnCurve /\ nextOnCurve THEN j + 1 ELSE j
             endPt == readUint16(data, endPtsOfContours + 2 * i)
             st == ContourPoints(pts, j1 + 1, endPt,
                                 [out |-> Append(out, setStart(x0, y0)),
                                  lastOff |-> FALSE, cx |-> 0, cy |-> 0])
             closed ==
                 IF firstOnCurve
                 THEN Append(st.out,
                             IF st.lastOff THEN setQuad(x0, y0, st.cx, st.cy)
                             ELSE setLine(x0, y0))
                 ELSE Append(IF st.lastOff
                             THEN Append(st.out,
                                         setQuad(Half(st.cx, firstPt.x),
                                                 Half(st.cy, firstPt.y),
                                                 st.cx, st.cy))
                             ELSE st.out,
                             setQuad(x0, y0, firstPt.x, firstPt.y))
         IN Contours(data, endPtsOfContours, numberOfContours, pts, i + 1,
                     Max(j1 + 1, endPt + 1), closed)

\* the branch "Simple glyph" for the glyph record at offset g
SimpleGlyphVertices(data, g) ==
    LET numberOfContours == readInt16(data, g)
        endPtsOfContours == g + 10
        instructionLength ==
            readUint16(data, endPtsOfContours + 2 * numberOfContours)
        p == endPtsOfContours + 2 * numberOfContours + 2 + instructionLength
        n == 1 + readUint16(data,
                            endPtsOfContours + 2 * (numberOfContours - 1))
        fl == ReadFlags(data, p, n, 0, 0, << >>)
        xs == ReadCoordinates(data, fl.p, fl.flags, X_SHORT, X_POSITIVE, 0,
                              << >>)
        ys == ReadCoordinates(data, xs.p, fl.flags, Y_SHORT, Y_POSITIVE, 0,
                              << >>)
        pts == [k \in 1..n |-> [x |-> xs.vals[k], y |-> ys.vals[k],
                                flag |-> fl.flags[k]]]
    IN Contours(data, endPtsOfContours, numberOfContours, pts, 0, 0, << >>)

\* |v|
Abs(v) == IF v < 0 THEN 0 - v ELSE v

\* a transform that moves end points but leaves control points in place
Transform_EndPointsOnly(v, t) ==
    LET x == ToInt16((t.a * v.x + t.c * v.y + t.e) \div 16384)
        y == ToInt16((t.b * v.x + t.d * v.y + t.f) \div 16384)
    IN IF v.type = QUAD
       THEN [type |-> v.type, x |-> x, y |-> y, cx |-> v.cx, cy |-> v.cy]
       ELSE [type |-> v.type, x |-> x, y |-> y]

\* the lambda `transform` applied to the end point and the control point of
\* a vertex: x = (a*x + c*y + e) >> 14, y = (b*x0 + d*y + f) >> 14, stored
\* as int16_t.  t = [a, b, c, d, e, f].
Transform(v, t) ==
    LET x == ToInt16((t.a * v.x + t.c * v.y + t.e) \div 16384)
        y == ToInt16((t.b * v.x + t.d * v.y + t.f) \div 16384)
    IN IF v.type = QUAD
       THEN [type |-> v.type, x |-> x, y |-> y,
             cx |-> ToInt16((t.a * v.cx + t.c * v.cy + t.e) \div 16384),
             cy |-> ToInt16((t.b * v.cx + t.d * v.cy + t.f) \div 16384)]
       ELSE [type |-> v.type, x |-> x, y |-> y]

\* the matrix and offsets decoded from the component record at offset p
ComponentTransform(data, p) ==
    LET flags == ToUint16(readInt16(data, p))
        words == HasFlag(flags, ARG_1_AND_2_ARE_WORDS)
        e0 == IF words THEN readInt16(data, p + 4) ELSE readInt8(data, p + 4)
        f0 == IF words THEN readInt16(data, p + 6) ELSE readInt8(data, p + 5)
        q == p + 4 + (IF words THEN 4 ELSE 2)
        one == HasFlag(flags, WE_HAVE_A_SCALE)
        two == ~one /\ HasFlag(flags, WE_HAVE_AN_X_AND_Y_SCALE)
        four == ~one /\ ~two /\ HasFlag(flags, WE_HAVE_A_TWO_BY_TWO)
        a == IF one \/ two \/ four THEN readInt16(data, q) ELSE 16384
        b == IF four THEN readInt16(data, q + 2) ELSE 0
        c == IF four THEN readInt16(data, q + 4) ELSE 0
        d == IF one THEN a
             ELSE IF two THEN readInt16(data, q + 2)
             ELSE IF four THEN readInt16(data, q + 6) ELSE 16384
        m0 == Max(Abs(a), Abs(b))
        n0 == Max(Abs(c), Abs(d))
        m == IF Abs(Abs(a) - Abs(c)) <= 8 THEN 2 * m0 ELSE m0
        n == IF Abs(Abs(b) - Abs(d)) <= 8 THEN 2 * n0 ELSE n0
    IN [a |-> a, b |-> b, c |-> c, d |-> d, e |-> e0 * m, f |-> f0 * n]

\* what a call that exhausts the stack by unbounded recursion ends with:
\* the process dies, nothing is returned or thrown to a handler
StackExhausted == [thrown |-> TRUE, val |-> 0, msg |-> "stack exhausted"]

\* getGlyphVertices, following at most `fuel` nested component calls
RECURSIVE getGlyphVertices(_, _, _, _)
RECURSIVE CompoundGlyphVertices(_, _, _, _, _)
getGlyphVertices(data, inf, glyphID, fuel) ==
    LET g == getGlyfOffset(data, inf, glyphID) IN
    IF g.null THEN Ok(<< >>)
    ELSE IF readInt16(data, g.off) >= 0
         THEN Ok(SimpleGlyphVertices(data, g.off))
    ELSE IF fuel = 0 THEN StackExhausted
    ELSE CompoundGlyphVertices(data, inf, g.off + 10, fuel, << >>)

\* a loop that decodes the component's glyph before it tests the flag
RECURSIVE CompoundGlyphVertices_DecodeFirst(_, _, _, _, _)
CompoundGlyphVertices_DecodeFirst(data, inf, p, fuel, components) ==
    LET flags == ToUint16(readInt16(data, p))
        glyphIndex == ToUint16(readInt16(data, p + 2))
        t == ComponentTransform(data, p)
        component == getGlyphVertices(data, inf, glyphIndex, fuel - 1)
        all == components
               \o [k \in 1..Len(component.val) |->
                     Transform(component.val[k], t)]
    IN IF component.thrown THEN component
       ELSE IF ~HasFlag(flags, ARGS_ARE_XY_VALUES)
       THEN Thrown("Matching point not implemented...")
       ELSE IF ~HasFlag(flags, MORE_COMPONENTS) THEN Ok(all)
       ELSE CompoundGlyphVertices_DecodeFirst(data, inf,
                                  p + 4 + ComponentArgBytes(flags), fuel, all)

\* the loop "Compound glyph" from the component record at offset p on;
\* components holds the vertices of the components decoded so far
CompoundGlyphVertices(data, inf, p, fuel, components) ==
    LET flags == ToUint16(readInt16(data, p))
        glyphIndex == ToUint16(readInt16(data, p + 2))
        t == ComponentTransform(data, p)
        component == getGlyphVertices(data, inf, glyphIndex, fuel - 1)
        all == components
               \o [k \in 1..Len(component.val) |->
                     Transform(component.val[k], t)]
    IN IF ~HasFlag(flags, ARGS_ARE_XY_VALUES)
       THEN Thrown("Matching point not implemented...")
       ELSE IF component.thrown THEN component
       ELSE IF ~HasFlag(flags, MORE_COMPONENTS) THEN Ok(all)
       ELSE CompoundGlyphVertices(data, inf,
                                  p + 4 + ComponentArgBytes(flags), fuel, all)

----------------------------------------------------------------------------
(* Input fonts: the byte layout the functions above read *)

\* a signed 16-bit field
I16(v) == U16(v % 65536)

RECURSIVE Zeros(_)
Zeros(n) == IF n = 0 THEN << >> ELSE <<0>> \o Zeros(n - 1)

RECURSIVE SumBody(_, _)
SumBody(bodies, k) ==
    IF k = 0 THEN 0 ELSE Len(bodies[k]) + SumBody(bodies, k - 1)

\* An sfnt file: 12-byte header whose table count field is numTablesField,
\* one 16-byte record per table of tabs (tag, checksum, offset, length),
\* then the table bodies.
SfntBytes(tag4, tabs, numTablesField) ==
    LET n == Len(tabs)
        bodies == [k \in 1..n |-> tabs[k].body]
        offset(k) == 12 + 16 * n + SumBody(bodies, k - 1)
    IN tag4 \o U16(numTablesField) \o Zeros(6)
       \o Flatten([k \in 1..n |-> tabs[k].tag \o U32(0) \o U32(offset(k))
                                   \o U32(Len(tabs[k].body))])
       \o Flatten(bodies)

\* A cmap table: header, one encoding record per entry of recs, then one
\* subtable per record, in order.
CmapBytes(recs, subs) ==
    LET n == Len(recs)
        offset(k) == 4 + 8 * n + SumBody(subs, k - 1)
    IN U16(0) \o U16(n)
       \o Flatten([k \in 1..n |-> U16(recs[k][1]) \o U16(recs[k][2])
                                   \o U32(offset(k))])
       \o Flatten(subs)

\* format 0: glyph index array of 256 bytes, gids[c] for the characters of
\* the range and 0 elsewhere
Format0Bytes(gids) ==
    U16(0) \o U16(262) \o U16(0)
    \o [c \in 1..256 |-> IF c - 1 - firstChar \in 0..(Len(gids) - 1)
                         THEN gids[c - firstChar] ELSE 0]

\* format 12: one group per character of the range with a glyph
Format12Bytes(gids) ==
    LET cs == {c \in 1..Len(gids) : gids[c] # 0}
        groups == [c \in 1..Len(gids) |->
                     IF c \in cs
                     THEN U32(firstChar + c - 1) \o U32(firstChar + c - 1)
                          \o U32(gids[c])
                     ELSE << >>]
    IN U16(12) \o U16(0) \o U32(16 + 12 * Cardinality(cs)) \o U32(0)
       \o U32(Cardinality(cs)) \o Flatten(groups)

\* format 4: one segment per character of the range with a glyph, and the
\* closing segment 0xFFFF
Format4Of(gids) ==
    LET segs == [c \in 1..Len(gids) |->
                   IF gids[c] # 0
                   THEN << [start |-> firstChar + c - 1,
                            end |-> firstChar + c - 1,
                            delta |-> (gids[c] - (firstChar + c - 1)) % 65536,
                            glyphs |-> << >>] >>
                   ELSE << >>]
    IN Format4Bytes(Flatten(segs)
                    \o << [start |-> 65535, end |-> 65535, delta |-> 1,
                           glyphs |-> << >>] >>)

\* a subtable of the given format number mapping character c of the range to
\* gids[c]; any other number gives a header carrying just that number
SubtableBytes(format, gids) ==
    CASE format = 0 -> Format0Bytes(gids)
      [] format = 4 -> Format4Of(gids)
      [] format = 12 -> Format12Bytes(gids)
      [] OTHER -> U16(format) \o U16(6) \o U16(0)

\* A glyph of the glyf table.
\*   [kind |-> "empty"]                      zero-length loca entry
\*   [kind |-> "simple", w, h]               one triangular contour
\*   [kind |-> "compound", w, h, ref, xy]    one component, glyph ref,
\*                                           ARGS_ARE_XY_VALUES iff xy
GlyphBytes(g) ==
    CASE g.kind = "empty" -> << >>
      [] g.kind = "simple" ->
           I16(1) \o I16(0) \o I16(0) \o I16(g.w) \o I16(g.h)
           \o U16(2) \o U16(0) \o <<9, 2>>
           \o I16(0) \o I16(g.w) \o I16(0 - g.w)
           \o I16(0) \o I16(0) \o I16(g.h)
      [] g.kind = "compound" ->
           I16(0 - 1) \o I16(0) \o I16(0) \o I16(g.w) \o I16(g.h)
           \o U16(IF g.xy THEN ARGS_ARE_XY_VALUES ELSE 0) \o U16(g.ref)
           \o <<0, 0>>

\* loca in the short format: glyph offsets divided by two, one more than
\* there are glyphs
LocaBytes(glyphs) ==
    LET bodies == [k \in 1..Len(glyphs) |-> GlyphBytes(glyphs[k])]
    IN Flatten([k \in 1..(Len(glyphs) + 1) |->
                  U16(SumBody(bodies, k - 1) \div 2)])

HeadBytes(indexToLocFormat) == Zeros(50) \o I16(indexToLocFormat) \o Zeros(2)

HheaBytes(ascent, descent, numOfLongHorMetrics) ==
    Zeros(4) \o I16(ascent) \o I16(descent) \o Zeros(26)
    \o U16(numOfLongHorMetrics)

\* advance width 10 * (k + 1) for glyph k, left side bearing 0
HmtxBytes(n) == Flatten([k \in 1..n |-> U16(10 * k) \o I16(0)])

MaxpBytes(numGlyphs) == U32(65536) \o U16(numGlyphs)

\* The tables of a font, in directory order; `drop` names the tables left
\* out of the directory.
FontTables(glyphs, recs, format, gids, drop) ==
    LET all == << [tag |-> "cmap",
                   body |-> CmapBytes(recs, [k \in 1..Len(recs) |->
                                               SubtableBytes(format, gids)])],
                  [tag |-> "glyf",
                   body |-> Flatten([k \in 1..Len(glyphs) |->
                                       GlyphBytes(glyphs[k])])],
                  [tag |-> "head", body |-> HeadBytes(0)],
                  [tag |-> "hhea", body |-> HheaBytes(6, 0 - 2, Len(glyphs))],
                  [tag |-> "hmtx", body |-> HmtxBytes(Len(glyphs))],
                  [tag |-> "loca", body |-> LocaBytes(glyphs)],
                  [tag |-> "maxp", body |-> MaxpBytes(Len(glyphs))] >>
        kept == SelectSeq(all, LAMBDA t : t.tag \notin drop)
    IN [k \in 1..Len(kept) |-> [tag |-> TagBytes[kept[k].tag],
                                body |-> kept[k].body]]

----------------------------------------------------------------------------
(* getTTFAtlas: state *)

Chars == 0..(charCount - 1)

\* a GlyphRect or CharPosition field that has not been assigned holds 0 here;
\* the code never reads one except rects[i].h in the sort of packRects
NoRect == [x |-> 0, y |-> 0, w |-> 0, h |-> 0, missing |-> FALSE]

NoCharPosition ==
    [x0 |-> 0, y0 |-> 0, x1 |-> 0, y1 |-> 0, xoff |-> 0, yoff |-> 0,
     xadvance |-> <<0, 1>>]

NoAtlas ==
    [width |-> 0, height |-> 0,
     charPositions |-> [j \in Chars |-> NoCharPosition]]

NoInfo ==
    [loca |-> NullPtr, head |-> NullPtr, glyf |-> NullPtr, hhea |-> NullPtr,
     hmtx |-> NullPtr, cmap |-> NullPtr, numGlyphs |-> 0,
     indexToLocFormat |-> 0]

NoCall == [fn |-> "", arg |-> << >>, done |-> FALSE, result |-> Ok(0)]

InitAtlas(f) ==
    /\ font = f
    /\ pc = "start"
    /\ err = ""
    /\ info = NoInfo
    /\ idx = 0
    /\ rects = [i \in Chars |-> NoRect]
    /\ has_missing_glyph = FALSE
    /\ atlas = NoAtlas
    /\ missing_glyph = 0 - 1
    /\ rendered = << >>
    /\ returned = << >>
    /\ maxRead = 0 - 1
    /\ call = NoCall

\* an error path that hands the atlas built so far to the caller
Throw_ReturningAtlas(msg) ==
    /\ pc' = "error"
    /\ err' = msg
    /\ returned' = <<atlas>>

\* THROW_ERROR inside getTTFAtlas: the exception leaves every frame up to
\* the caller, who receives no Atlas
Throw(msg) ==
    /\ pc' = "error"
    /\ err' = msg
    /\ UNCHANGED returned

----------------------------------------------------------------------------
(* getTTFAtlas: steps *)

\* a tag test that compares the first three bytes only
BadTag_FirstThree(data) ==
    \E k \in 0..2 : Byte(data, k) # <<0, 1, 0, 0>>[k + 1]

\* memcmp(fontData, "\0\1\0\0", 4) != 0
BadTag(data) == \E k \in 0..3 : Byte(data, k) # <<0, 1, 0, 0>>[k + 1]

CheckTag ==
    /\ pc = "start"
    /\ maxRead' = Max(maxRead, 3)
    /\ IF BadTag(font.data)
       THEN Throw("bad TTF tag")
       ELSE pc' = "tables" /\ UNCHANGED <<err, returned>>
    /\ UNCHANGED <<font, info, idx, rects, has_missing_glyph, atlas,
                   missing_glyph, rendered, call>>

FindAllTables ==
    /\ pc = "tables"
    /\ maxRead' = Max(maxRead, findAllTablesReads(font.data))
    /\ LET r == findAllTables(font.data) IN
       IF r.thrown
       THEN Throw(r.msg) /\ UNCHANGED info
       ELSE pc' = "rects" /\ info' = r.val /\ UNCHANGED <<err, returned>>
    /\ UNCHANGED <<font, idx, rects, has_missing_glyph, atlas,
                   missing_glyph, rendered, call>>

\* a loop that never flags a character missing
FlagsMissing_Never(glyphID, has_missing) == FALSE

\* `if(!glyphID) { if(has_missing_glyph) {...; continue;} ...}`: the
\* character is flagged missing and gets no rectangle of its own
FlagsMissing(glyphID, has_missing) == glyphID = 0 /\ has_missing

\* one iteration of the loop of getGlyphRects
GetGlyphRects ==
    /\ pc = "rects"
    /\ LET i == idx
           scale == getScale(font.data, info, font.fontSize)
           r == charCode2GlyphID(font.data, info.cmap.off, firstChar + i)
           glyphID == r.val
           box == getGlyphBox(font.data, info, glyphID, scale)
       IN IF r.thrown
          THEN /\ Throw(r.msg)
               /\ maxRead' = Max(maxRead, info.hhea.off + 7)
               /\ UNCHANGED <<idx, rects, has_missing_glyph>>
          ELSE /\ IF FlagsMissing(glyphID, has_missing_glyph)
                  THEN /\ rects' = [rects EXCEPT ![i].missing = TRUE]
                       /\ maxRead' = Max(maxRead, info.hhea.off + 7)
                       /\ UNCHANGED has_missing_glyph
                  ELSE /\ has_missing_glyph' = (has_missing_glyph \/ r.val = 0)
                       /\ rects' = [rects EXCEPT ![i].w = box.x1 - box.x0,
                                                 ![i].h = box.y1 - box.y0,
                                                 ![i].missing = FALSE]
                       /\ maxRead' =
                            MaxOf({maxRead, info.hhea.off + 7,
                                   getGlyphBoxReads(font.data, info, glyphID)})
               /\ IF i + 1 < charCount
                  THEN idx' = i + 1 /\ pc' = "rects"
                  ELSE idx' = 0 /\ pc' = "pack"
               /\ UNCHANGED <<err, returned>>
    /\ UNCHANGED <<font, info, atlas, missing_glyph, rendered, call>>

\* values an unassigned rects[i].h may hold when the sort reads it
IndeterminateH == {0, 1000}

\* what sort(order, order+charCount, by h) may leave in order[]: any
\* arrangement of the indices that is ascending in h
SortedOrders(h) ==
    {o \in [1..charCount -> Chars] :
        /\ \A a, b \in 1..charCount : a # b => o[a] # o[b]
        /\ \A a \in 1..(charCount - 1) : h[o[a]] <= h[o[a + 1]]}

\* a placement loop that advances x by the width alone, without padding
RECURSIVE PlaceRects_NoPadding(_, _, _)
PlaceRects_NoPadding(order, k, st) ==
    IF k > Len(order) THEN st
    ELSE LET i == order[k]
             r == st.rects[i]
             wrap == st.x + r.w + padding > AtlasWidth
             x == IF wrap THEN padding ELSE st.x
             y == IF wrap THEN st.y + st.rowHeight + padding ELSE st.y
             rowHeight == IF wrap THEN 0 ELSE st.rowHeight
         IN IF r.missing THEN PlaceRects_NoPadding(order, k + 1, st)
            ELSE PlaceRects_NoPadding(order, k + 1,
                            [x |-> x + r.w, y |-> y,
                             rowHeight |-> Max(rowHeight, r.h),
                             rects |-> [st.rects EXCEPT ![i].x = x,
                                                        ![i].y = y]])

\* the loop `for(uint32_t i : order)` of packRects, from position k on
RECURSIVE PlaceRects(_, _, _)
PlaceRects(order, k, st) ==
    IF k > Len(order) THEN st
    ELSE LET i == order[k]
             r == st.rects[i]
             wrap == st.x + r.w + padding > AtlasWidth
             x == IF wrap THEN padding ELSE st.x
             y == IF wrap THEN st.y + st.rowHeight + padding ELSE st.y
             rowHeight == IF wrap THEN 0 ELSE st.rowHeight
         IN IF r.missing THEN PlaceRects(order, k + 1, st)
            ELSE PlaceRects(order, k + 1,
                            [x |-> x + r.w + padding, y |-> y,
                             rowHeight |-> Max(rowHeight, r.h),
                             rects |-> [st.rects EXCEPT ![i].x = x,
                                                        ![i].y = y]])

\* a packing whose height stops at the bottom of the last shelf
packRects_NoBottomPadding(rs, order) ==
    LET st == PlaceRects(order, 1, [x |-> padding, y |-> padding,
                                    rowHeight |-> 0, rects |-> rs])
    IN [rects |-> st.rects,
        atlas |-> [width |-> AtlasWidth,
                   height |-> st.y + st.rowHeight,
                   charPositions |-> [j \in Chars |-> NoCharPosition]]]

packRects(rs, order) ==
    LET st == PlaceRects(order, 1, [x |-> padding, y |-> padding,
                                    rowHeight |-> 0, rects |-> rs])
    IN [rects |-> st.rects,
        atlas |-> [width |-> AtlasWidth,
                   height |-> st.y + st.rowHeight + padding,
                   charPositions |-> [j \in Chars |-> NoCharPosition]]]

PackRects ==
    /\ pc = "pack"
    /\ \E g \in [Chars -> IndeterminateH] :
         \E order \in SortedOrders([i \in Chars |->
                                      IF rects[i].missing THEN g[i]
                                      ELSE rects[i].h]) :
            LET p == packRects(rects, order)
            IN rects' = p.rects /\ atlas' = p.atlas
    /\ pc' = "render"
    /\ idx' = 0
    /\ missing_glyph' = 0 - 1
    /\ UNCHANGED <<font, err, info, has_missing_glyph, rendered, returned,
                   maxRead, call>>

\* the CharPosition renderGlyphs fills for a rasterized character; the
\* rectangle fields are uint16_t
CharPositionOf(r, box, scale, advanceWidth) ==
    [x0 |-> ToUint16(r.x), y0 |-> ToUint16(r.y),
     x1 |-> ToUint16(r.x + r.w), y1 |-> ToUint16(r.y + r.h),
     xoff |-> box.x0, yoff |-> box.y0,
     xadvance |-> <<scale.num * advanceWidth, scale.den>>]

\* the indexes of img at which renderGlyph(info, img + at, imgWidth, scale,
\* glyphID) stores a byte: none when the box has no width or no height or
\* the glyph has no contour, and img[at + j*imgWidth + i] for every row j
\* and column i of the box otherwise
renderGlyphWrites(data, inf, scale, glyphID, at, imgWidth) ==
    LET box == getGlyphBox(data, inf, glyphID, scale)
        glyphW == box.x1 - box.x0
        glyphH == box.y1 - box.y0
        vertices == getGlyphVertices(data, inf, glyphID, MaxNesting)
    IN IF glyphW = 0 \/ glyphH = 0 THEN {}
       ELSE IF vertices.thrown THEN {}
       ELSE IF \A k \in 1..Len(vertices.val) : vertices.val[k].type # START
       THEN {}
       ELSE {at + j * imgWidth + i :
               j \in 0..(glyphH - 1), i \in 0..(glyphW - 1)}

\* a copy that always takes the CharPosition of character 0
CopyMissing_FromFirst(cps, j, missing) == [cps EXCEPT ![j] = cps[0]]

\* atlas.charPositions[j] = atlas.charPositions[missing_glyph]
CopyMissing(cps, j, missing) == [cps EXCEPT ![j] = cps[missing]]

\* a loop that records every rasterized character as the glyph-0 character
NoteMissingGlyph_Always(missing, glyphID, j) == j

\* a loop that never records the rasterized glyph-0 character
NoteMissingGlyph_Never(missing, glyphID, j) == missing

\* if(!glyphID) missing_glyph = j
NoteMissingGlyph(missing, glyphID, j) == IF glyphID = 0 THEN j ELSE missing

\* one iteration of the loop of renderGlyphs
RenderGlyphs ==
    /\ pc = "render"
    /\ LET j == idx
           r == rects[j]
           scale == getScale(font.data, info, font.fontSize)
           numOfLongHorMetrics == readUint16(font.data, info.hhea.off + 34)
           g == charCode2GlyphID(font.data, info.cmap.off, firstChar + j)
           glyphID == g.val
           end == renderGlyph(font.data, info, scale, glyphID)
           hm == info.hmtx.off + 4 * Min(glyphID, numOfLongHorMetrics - 1)
           advanceWidth == ToUint16(readInt16(font.data, hm))
           box == getGlyphBox(font.data, info, glyphID, scale)
           more == IF j + 1 < charCount
                   THEN idx' = j + 1 /\ pc' = "render"
                   ELSE idx' = 0 /\ pc' = "return"
       IN IF r.missing
          THEN IF missing_glyph = 0 - 1
               THEN /\ Throw("Missing glyph encountered too early")
                    /\ UNCHANGED <<idx, atlas, missing_glyph, rendered,
                                   maxRead>>
               ELSE /\ atlas' = [atlas EXCEPT !.charPositions =
                                   CopyMissing(@, j, missing_glyph)]
                    /\ more
                    /\ UNCHANGED <<err, returned, missing_glyph, rendered,
                                   maxRead>>
          ELSE IF g.thrown
               THEN /\ Throw(g.msg)
                    /\ UNCHANGED <<idx, atlas, missing_glyph, rendered,
                                   maxRead>>
          ELSE IF end = "thrown"
               THEN /\ Throw("Matching point not implemented...")
                    /\ UNCHANGED <<idx, atlas, missing_glyph, rendered,
                                   maxRead>>
          ELSE IF end = "overflow"
               THEN /\ pc' = "crashed"
                    /\ UNCHANGED <<err, returned, idx, atlas, missing_glyph,
                                   rendered, maxRead>>
          ELSE /\ rendered' = Append(rendered,
                                     [char |-> j, glyphID |-> glyphID,
                                      x |-> r.x, y |-> r.y, end |-> end])
               /\ atlas' = [atlas EXCEPT !.charPositions[j] =
                              CharPositionOf(r, box, scale, advanceWidth)]
               /\ missing_glyph' = NoteMissingGlyph(missing_glyph, glyphID, j)
               /\ maxRead' = MaxOf({maxRead, info.hhea.off + 35, hm + 1,
                                    getGlyphBoxReads(font.data, info, glyphID)})
               /\ more
               /\ UNCHANGED <<err, returned>>
    /\ UNCHANGED <<font, info, rects, has_missing_glyph, call>>

\* `return atlas;`
Return ==
    /\ pc = "return"
    /\ pc' = "done"
    /\ returned' = <<atlas>>
    /\ UNCHANGED <<font, err, info, idx, rects, has_missing_glyph, atlas,
                   missing_glyph, rendered, maxRead, call>>

----------------------------------------------------------------------------
(* Fonts drawn as input of getTTFAtlas.  All have the seven tables in the   *)
(* directory (a few lack cmap, which findAllTables detects), three glyphs,  *)
(* ascent 6 and descent -2, and are loaded at fontSize 8 (scale 1).         *)

GoodTag == <<0, 1, 0, 0>>

\* the glyphs a font may hold: empty, simple boxes (two of equal height,
\* one as wide as the atlas), a compound of glyph ref placed by offsets or
\* by point matching
Empty == [kind |-> "empty"]

Simple(w, h) == [kind |-> "simple", w |-> w, h |-> h]

Compound(w, h, ref, xy) ==
    [kind |-> "compound", w |-> w, h |-> h, ref |-> ref, xy |-> xy]

Glyph0Choices == {Empty, Simple(100, 3), Compound(120, 6, 1, TRUE)}

Glyph1Choices ==
    {Simple(100, 3), Simple(AtlasWidth, 2), Compound(120, 6, 2, TRUE),
     Compound(50, 4, 2, FALSE)}

Glyph2Choices == {Simple(155, 3), Simple(60, 5), Compound(120, 6, 0, TRUE)}

\* drop: tables left out of the directory; extra: added to the table count
\* field; cut: the file is truncated to cut bytes when cut > 0; beyond: the
\* byte a read outside the buffer yields
MakeFont(tag4, glyphs, recs, format, gids, drop, extra, cut, beyond) ==
    LET tabs == FontTables(glyphs, recs, format, gids, drop)
        bytes == SfntBytes(tag4, tabs, Len(tabs) + extra)
    IN [data |-> IF cut > 0 THEN SubSeq(bytes, 1, cut) ELSE bytes,
        fontSize |-> 8,
        beyond |-> beyond]

\* every assignment of glyph IDs 0..2 to the characters, every choice of
\* the three glyphs; one Microsoft/BMP format-4 subtable
GlyphFonts ==
    { MakeFont(GoodTag, <<g0, g1, g2>>, << <<3, 1>> >>, 4, gids, {}, 0, 0, 0) :
        g0 \in Glyph0Choices, g1 \in Glyph1Choices, g2 \in Glyph2Choices,
        gids \in [1..charCount -> 0..2] }

\* lists of (platformID, platformSpecificID) encoding records
RecordChoices ==
    { << >>,
      << <<0, 3>> >>,
      << <<0, 14>> >>,
      << <<1, 0>> >>,
      << <<3, 0>> >>,
      << <<3, 10>> >>,
      << <<3, 1>>, <<0, 3>> >>,
      << <<1, 0>>, <<3, 1>> >>,
      << <<0, 14>>, <<3, 2>>, <<3, 10>> >>,
      << <<2, 1>>, <<3, 2>>, <<0, 14>> >>,
      << <<4, 1>>, <<0, 0>>, <<3, 1>> >> }

TagChoices == {GoodTag, <<0, 1, 0, 1>>, <<1, 1, 0, 0>>, <<79, 84, 84, 79>>}

FormatChoices == {0, 2, 4, 6, 12}

HeaderGlyphs ==
    <<Simple(100, 3), Simple(155, 3), Compound(50, 4, 1, FALSE)>>

HeaderGids == [c \in 1..charCount |-> c % 3]

\* fixed glyphs; the sfnt tag, the encoding records and the subtable format
\* vary
HeaderFonts ==
    { MakeFont(tag4, HeaderGlyphs, recs, format, HeaderGids, {}, 0, 0, 0) :
        tag4 \in TagChoices, recs \in RecordChoices,
        format \in FormatChoices }
    \cup
    { MakeFont(tag4, HeaderGlyphs, << <<3, 1>> >>, 4, HeaderGids, {"cmap"},
               0, 0, 0) : tag4 \in TagChoices }

Fonts == GlyphFonts \cup HeaderFonts

Init == \E f \in Fonts : InitAtlas(f)

\* renderGlyphs called on its own: a font whose characters map to the empty
\* glyph 0 or to a simple glyph, and rectangles whose missing flags are
\* arbitrary (getGlyphRects is not what set them)
RenderFonts ==
    { MakeFont(GoodTag, <<Empty, Simple(100, 3), Simple(60, 5)>>,
               << <<3, 1>> >>, 4, gids, {}, 0, 0, 0) :
        gids \in [1..charCount -> 0..1] }

InitRender ==
    /\ \E f \in RenderFonts, flags \in [Chars -> BOOLEAN] :
       \E inf \in {findAllTables(f.data).val} :
       \E boxes \in {[i \in Chars |->
                        getGlyphBox(f.data, inf,
                                    charCode2GlyphID(f.data, inf.cmap.off,
                                                     firstChar + i).val,
                                    getScale(f.data, inf, f.fontSize))]} :
       \E rs \in {[i \in Chars |->
                     [x |-> 0, y |-> 0,
                      w |-> boxes[i].x1 - boxes[i].x0,
                      h |-> boxes[i].y1 - boxes[i].y0,
                      missing |-> flags[i]]]} :
       \E p \in {packRects(rs, [k \in 1..charCount |-> k - 1])} :
            /\ font = f
            /\ info = inf
            /\ rects = p.rects
            /\ atlas = p.atlas
    /\ pc = "render"
    /\ err = ""
    /\ idx = 0
    /\ has_missing_glyph = FALSE
    /\ missing_glyph = 0 - 1
    /\ rendered = << >>
    /\ returned = << >>
    /\ maxRead = 0 - 1
    /\ call = NoCall

NextRender == RenderGlyphs

SpecRender == InitRender /\ [][NextRender]_vars

Next ==
    \/ CheckTag
    \/ FindAllTables
    \/ GetGlyphRects
    \/ PackRects
    \/ RenderGlyphs
    \/ Return

Spec == Init /\ [][Next]_vars

----------------------------------------------------------------------------
(* findAllTables applied to well-formed and malformed directories *)

Drops ==
    {{}, {"cmap"}, {"loca"}, {"head"}, {"glyf"}, {"hhea"}, {"hmtx"},
     {"maxp"}}

BeyondChoices == {0, 1}

TableFonts ==
    { MakeFont(GoodTag, HeaderGlyphs, recs, 4, HeaderGids, drop, 0, 0, b) :
        drop \in Drops, recs \in RecordChoices, b \in BeyondChoices }
    \cup
    { MakeFont(GoodTag, HeaderGlyphs, << <<3, 1>> >>, 4, HeaderGids, drop,
               extra, cut, b) :
        drop \in {{}, {"maxp"}, {"hmtx"}}, extra \in {0, 1, 40},
        cut \in {0, 12, 200, 300}, b \in BeyondChoices }

InitTables ==
    /\ \E f \in TableFonts : font = f
    /\ pc = "findAllTables"
    /\ err = ""
    /\ info = NoInfo
    /\ idx = 0
    /\ rects = [i \in Chars |-> NoRect]
    /\ has_missing_glyph = FALSE
    /\ atlas = NoAtlas
    /\ missing_glyph = 0 - 1
    /\ rendered = << >>
    /\ returned = << >>
    /\ maxRead = 0 - 1
    /\ call = NoCall

\* the call returns or throws; a read outside the buffer yields font.beyond
CallFindAllTables ==
    /\ pc = "findAllTables"
    /\ pc' = "returned"
    /\ call' = [fn |-> "findAllTables", arg |-> << >>, done |-> TRUE,
                result |-> findAllTables(font.data)]
    /\ maxRead' = findAllTablesReads(font.data)
    /\ UNCHANGED <<font, err, info, idx, rects, has_missing_glyph, atlas,
                   missing_glyph, rendered, returned>>

\* a read outside the buffer may also end the process
FaultFindAllTables ==
    /\ pc = "findAllTables"
    /\ findAllTablesReads(font.data) >= Len(font.data)
    /\ pc' = "crashed"
    /\ maxRead' = findAllTablesReads(font.data)
    /\ UNCHANGED <<font, err, info, idx, rects, has_missing_glyph, atlas,
                   missing_glyph, rendered, returned, call>>

NextTables == CallFindAllTables \/ FaultFindAllTables

SpecTables == InitTables /\ [][NextTables]_vars

----------------------------------------------------------------------------
(* charCode2GlyphID applied to format-4 subtables *)

\* segments a subtable may be made of; with glyphs, one entry per code
SegChoices ==
    { [start |-> 65, end |-> 90, delta |-> 0, glyphs |-> << >>],
      [start |-> 32, end |-> 34, delta |-> 65505, glyphs |-> << >>],
      [start |-> 40, end |-> 41, delta |-> 0, glyphs |-> <<300, 301>>],
      [start |-> 100, end |-> 102, delta |-> 7, glyphs |-> <<7, 0, 9>>],
      [start |-> 150, end |-> 160, delta |-> 65300, glyphs |-> << >>],
      [start |-> 200, end |-> 201, delta |-> 65336, glyphs |-> << >>],
      [start |-> 65535, end |-> 65535, delta |-> 1, glyphs |-> << >>] }

RECURSIVE SortByEnd(_)
SortByEnd(S) ==
    IF S = {} THEN << >>
    ELSE LET m == CHOOSE x \in S : \A y \in S : x.end <= y.end
         IN <<m>> \o SortByEnd(S \ {m})

\* the well-formed subtables: 1..MaxSegs segments, endCode ascending
SegLists ==
    { SortByEnd(S) : S \in {T \in SUBSET SegChoices :
                              Cardinality(T) \in 1..MaxSegs} }

CodeChoices ==
    {0, 31, 32, 33, 34, 35, 40, 41, 42, 64, 65, 66, 90, 91, 100, 101, 102,
     149, 150, 160, 199, 200, 201, 202, 65534, 65535, 65536, 70000}

\* the subtable is the only one of a cmap table with one encoding record
InitCmap4 ==
    /\ \E segs \in SegLists :
         /\ font = [data |-> CmapBytes(<< <<3, 1>> >>, <<Format4Bytes(segs)>>),
                    fontSize |-> 8, beyond |-> 0]
         /\ call = [fn |-> "charCode2GlyphID", arg |-> <<segs>>,
                    done |-> FALSE, result |-> Ok(0)]
    /\ pc = "charCode2GlyphID"
    /\ err = ""
    /\ info = [NoInfo EXCEPT !.cmap = Ptr(12)]
    /\ idx = 0
    /\ rects = [i \in Chars |-> NoRect]
    /\ has_missing_glyph = FALSE
    /\ atlas = NoAtlas
    /\ missing_glyph = 0 - 1
    /\ rendered = << >>
    /\ returned = << >>
    /\ maxRead = 0 - 1

CallCharCode2GlyphID ==
    /\ pc = "charCode2GlyphID"
    /\ \E c \in CodeChoices :
         call' = [fn |-> "charCode2GlyphID", arg |-> <<call.arg[1], c>>,
                  done |-> TRUE,
                  result |-> charCode2GlyphID(font.data, info.cmap.off, c)]
    /\ UNCHANGED atlasVars

NextCmap4 == CallCharCode2GlyphID

SpecCmap4 == InitCmap4 /\ [][NextCmap4]_vars

----------------------------------------------------------------------------
(* charCode2GlyphID applied to format-12 subtables *)

\* most groups of a format-12 subtable drawn
MaxGroups == 3

\* a format-12 subtable: header (format, reserved, length, language,
\* nGroups) and one 12-byte record per group [start, end, glyph]
Format12GroupBytes(groups) ==
    U16(12) \o U16(0) \o U32(16 + 12 * Len(groups)) \o U32(0)
    \o U32(Len(groups))
    \o Flatten([k \in 1..Len(groups) |->
                  U32(groups[k].start) \o U32(groups[k].end)
                  \o U32(groups[k].glyph)])

\* groups a subtable may be made of; they do not overlap
GroupChoices ==
    { [start |-> 32, end |-> 34, glyph |-> 1],
      [start |-> 65, end |-> 90, glyph |-> 36],
      [start |-> 100, end |-> 100, glyph |-> 7],
      [start |-> 150, end |-> 201, glyph |-> 500],
      [start |-> 65536, end |-> 70010, glyph |-> 1000] }

RECURSIVE SortByStart(_)
SortByStart(S) ==
    IF S = {} THEN << >>
    ELSE LET m == CHOOSE g \in S : \A h \in S : g.start <= h.start
         IN <<m>> \o SortByStart(S \ {m})

\* the subtables of the domain: 1..MaxGroups groups sorted by startCharCode
GroupLists ==
    { SortByStart(S) : S \in {T \in SUBSET GroupChoices :
                                Cardinality(T) \in 1..MaxGroups} }

InitCmap12 ==
    /\ \E groups \in GroupLists :
         /\ font = [data |-> CmapBytes(<< <<3, 10>> >>,
                                       <<Format12GroupBytes(groups)>>),
                    fontSize |-> 8, beyond |-> 0]
         /\ call = [fn |-> "charCode2GlyphID", arg |-> <<groups>>,
                    done |-> FALSE, result |-> Ok(0)]
    /\ pc = "charCode2GlyphID"
    /\ err = ""
    /\ info = [NoInfo EXCEPT !.cmap = Ptr(12)]
    /\ idx = 0
    /\ rects = [i \in Chars |-> NoRect]
    /\ has_missing_glyph = FALSE
    /\ atlas = NoAtlas
    /\ missing_glyph = 0 - 1
    /\ rendered = << >>
    /\ returned = << >>
    /\ maxRead = 0 - 1

NextCmap12 == CallCharCode2GlyphID

SpecCmap12 == InitCmap12 /\ [][NextCmap12]_vars

----------------------------------------------------------------------------
(* charCode2GlyphID applied to format-0 subtables *)

\* a format-0 subtable: format, length, language and the 256-byte glyph
\* index array
Format0ArrayBytes(arr) == U16(0) \o U16(262) \o U16(0) \o arr

\* glyph index arrays: the byte at code c is c, 255 - c, or 7 * c mod 256
ArrayChoices ==
    { [k \in 1..256 |-> k - 1],
      [k \in 1..256 |-> 256 - k],
      [k \in 1..256 |-> (7 * (k - 1)) % 256] }

Code0Choices == 0..255 \cup {256, 257, 1000, 65536}

InitCmap0 ==
    /\ \E arr \in ArrayChoices :
         /\ font = [data |-> CmapBytes(<< <<0, 3>> >>,
                                       <<Format0ArrayBytes(arr)>>),
                    fontSize |-> 8, beyond |-> 0]
         /\ call = [fn |-> "charCode2GlyphID", arg |-> <<arr>>,
                    done |-> FALSE, result |-> Ok(0)]
    /\ pc = "charCode2GlyphID"
    /\ err = ""
    /\ info = [NoInfo EXCEPT !.cmap = Ptr(12)]
    /\ idx = 0
    /\ rects = [i \in Chars |-> NoRect]
    /\ has_missing_glyph = FALSE
    /\ atlas = NoAtlas
    /\ missing_glyph = 0 - 1
    /\ rendered = << >>
    /\ returned = << >>
    /\ maxRead = 0 - 1

CallCharCode2GlyphID0 ==
    /\ pc = "charCode2GlyphID"
    /\ \E c \in Code0Choices :
         call' = [fn |-> "charCode2GlyphID", arg |-> <<call.arg[1], c>>,
                  done |-> TRUE,
                  result |-> charCode2GlyphID(font.data, info.cmap.off, c)]
    /\ UNCHANGED atlasVars

NextCmap0 == CallCharCode2GlyphID0

SpecCmap0 == InitCmap0 /\ [][NextCmap0]_vars

----------------------------------------------------------------------------
(* getGlyphVertices applied to simple and compound glyphs.  The font holds *)
(* three glyphs: 0 a simple glyph drawn from ShapeChoices, 1 the triangle  *)
(* Simple(30, 20), 2 a compound glyph of the components drawn.             *)

\* most components of the compound glyph drawn
MaxComponents == 2

\* the flag byte and the bytes of one coordinate delta; compact uses the
\* one-byte and the same-as-previous encodings where they apply
DeltaFlag(d, compact, short, same) ==
    IF ~compact THEN 0
    ELSE IF d = 0 THEN same
    ELSE IF Abs(d) <= 255 THEN short + (IF d > 0 THEN same ELSE 0)
    ELSE 0

DeltaBytes(d, compact) ==
    IF ~compact THEN I16(d)
    ELSE IF d = 0 THEN << >>
    ELSE IF Abs(d) <= 255 THEN <<Abs(d)>>
    ELSE I16(d)

\* a simple glyph record for shape = [pts, ends, compact]: pts the points
\* [x, y, on], ends the index of the last point of each contour
ShapeBytes(shape) ==
    LET n == Len(shape.pts)
        dx(k) == shape.pts[k].x - (IF k = 1 THEN 0 ELSE shape.pts[k - 1].x)
        dy(k) == shape.pts[k].y - (IF k = 1 THEN 0 ELSE shape.pts[k - 1].y)
    IN I16(Len(shape.ends)) \o Zeros(8)
       \o Flatten([i \in 1..Len(shape.ends) |-> U16(shape.ends[i])])
       \o U16(0)
       \o [k \in 1..n |->
             (IF shape.pts[k].on THEN ON_CURVE ELSE 0)
             + DeltaFlag(dx(k), shape.compact, X_SHORT, X_POSITIVE)
             + DeltaFlag(dy(k), shape.compact, Y_SHORT, Y_POSITIVE)]
       \o Flatten([k \in 1..n |-> DeltaBytes(dx(k), shape.compact)])
       \o Flatten([k \in 1..n |-> DeltaBytes(dy(k), shape.compact)])

\* one component record for c = [ref, xy, words, e, f, scale, extra]:
\* scale is the list of 0, 1, 2 or 4 matrix values, extra the flag bits
\* the decoder gives no meaning to
ComponentBytes(c, more) ==
    LET flags == (IF c.words THEN ARG_1_AND_2_ARE_WORDS ELSE 0)
                 + (IF c.xy THEN ARGS_ARE_XY_VALUES ELSE 0)
                 + (IF Len(c.scale) = 1 THEN WE_HAVE_A_SCALE ELSE 0)
                 + (IF more THEN MORE_COMPONENTS ELSE 0)
                 + (IF Len(c.scale) = 2 THEN WE_HAVE_AN_X_AND_Y_SCALE ELSE 0)
                 + (IF Len(c.scale) = 4 THEN WE_HAVE_A_TWO_BY_TWO ELSE 0)
                 + c.extra
    IN U16(flags) \o U16(c.ref)
       \o (IF c.words THEN I16(c.e) \o I16(c.f)
           ELSE <<c.e % 256, c.f % 256>>)
       \o Flatten([k \in 1..Len(c.scale) |-> I16(c.scale[k])])

\* a compound glyph record: numberOfContours -1, the box, the components
ComponentsBytes(comps) ==
    I16(0 - 1) \o Zeros(8)
    \o Flatten([k \in 1..Len(comps) |->
                  ComponentBytes(comps[k], k < Len(comps))])

Pt(x, y, on) == [x |-> x, y |-> y, on |-> on]

\* a triangle of on-curve points; an arch with one control point; a blob of
\* off-curve points only; two contours, the second starting off the curve
\* with an on-curve point next and ending off the curve; a contour that
\* starts on the curve and ends off it
ShapeChoices ==
    { [pts |-> <<Pt(0, 0, TRUE), Pt(0, 20, TRUE), Pt(30, 0, TRUE)>>,
       ends |-> <<2>>, compact |-> FALSE],
      [pts |-> <<Pt(0, 0, TRUE), Pt(10, 20, FALSE), Pt(20, 0, TRUE)>>,
       ends |-> <<2>>, compact |-> TRUE],
      [pts |-> <<Pt(5, 0, FALSE), Pt(10, 5, FALSE), Pt(5, 10, FALSE),
                 Pt(0, 5, FALSE)>>,
       ends |-> <<3>>, compact |-> TRUE],
      [pts |-> <<Pt(0, 0, TRUE), Pt(0, 300, TRUE), Pt(300, 0, TRUE),
                 Pt(40, 40, FALSE), Pt(40, 80, TRUE), Pt(80, 60, FALSE),
                 Pt(90, 40, FALSE)>>,
       ends |-> <<2, 6>>, compact |-> TRUE],
      [pts |-> <<Pt(0, 0, TRUE), Pt(21, 0, TRUE), Pt(10, 25, FALSE)>>,
       ends |-> <<2>>, compact |-> FALSE] }

Comp(ref, xy, words, e, f, scale, extra) ==
    [ref |-> ref, xy |-> xy, words |-> words, e |-> e, f |-> f,
     scale |-> scale, extra |-> extra]

\* components: placed by offsets of one or two bytes (one offset the
\* largest int16_t), with and without a matrix; placed by point matching;
\* one that refers to the compound glyph itself and is placed by point
\* matching
ComponentChoices ==
    { Comp(0, TRUE, FALSE, 0, 0, << >>, 0),
      Comp(0, TRUE, TRUE, 100, 0, << >>, 0),
      Comp(1, TRUE, FALSE, 0 - 5, 7, << >>, 4),
      Comp(0, TRUE, TRUE, 300, 0 - 200, << >>, 512),
      Comp(0, TRUE, TRUE, 32767, 0, << >>, 0),
      Comp(0, TRUE, FALSE, 3, 4, <<8192>>, 0),
      Comp(1, TRUE, TRUE, 10, 0, <<0, 16384, 0 - 16384, 0>>, 0),
      Comp(0, FALSE, FALSE, 1, 2, << >>, 0),
      Comp(1, FALSE, TRUE, 0, 0, <<8192, 16384>>, 4 + 256),
      Comp(2, FALSE, TRUE, 0, 0, << >>, 0) }

ComponentLists ==
    UNION { [1..n -> ComponentChoices] : n \in 1..MaxComponents }

GlyphIDChoices == 0..3

\* a glyph record padded to the two-byte boundary the short loca format
\* addresses
Even(bytes) == IF Len(bytes) % 2 = 0 THEN bytes ELSE bytes \o <<0>>

\* glyf holds the three glyph records, loca (short format) follows it
InitVertices ==
    /\ \E shape \in ShapeChoices, comps \in ComponentLists :
         LET bodies == <<Even(ShapeBytes(shape)),
                         Even(GlyphBytes(Simple(30, 20))),
                         Even(ComponentsBytes(comps))>>
             glyf == Flatten(bodies)
             loca == Flatten([k \in 1..4 |->
                                U16(SumBody(bodies, k - 1) \div 2)])
         IN /\ font = [data |-> glyf \o loca, fontSize |-> 8, beyond |-> 0]
            /\ info = [NoInfo EXCEPT !.glyf = Ptr(0),
                                     !.loca = Ptr(Len(glyf)),
                                     !.numGlyphs = 3]
            /\ call = [fn |-> "getGlyphVertices", arg |-> <<shape, comps>>,
                       done |-> FALSE, result |-> Ok(0)]
    /\ pc = "getGlyphVertices"
    /\ err = ""
    /\ idx = 0
    /\ rects = [i \in Chars |-> NoRect]
    /\ has_missing_glyph = FALSE
    /\ atlas = NoAtlas
    /\ missing_glyph = 0 - 1
    /\ rendered = << >>
    /\ returned = << >>
    /\ maxRead = 0 - 1

CallGetGlyphVertices ==
    /\ pc = "getGlyphVertices"
    /\ \E glyphID \in GlyphIDChoices :
         call' = [fn |-> "getGlyphVertices",
                  arg |-> <<call.arg[1], call.arg[2], glyphID>>,
                  done |-> TRUE,
                  result |-> getGlyphVertices(font.data, info, glyphID,
                                              MaxNesting)]
    /\ UNCHANGED atlasVars

NextVertices == CallGetGlyphVertices

SpecVertices == InitVertices /\ [][NextVertices]_vars

\* fonts whose compound glyphs may refer to compound glyphs, themselves
\* included: glyph 0 is a triangle, glyphs 1 and 2 are compound glyphs of
\* one or two components placed by offsets
CycleComponentChoices ==
    { Comp(0, TRUE, FALSE, 0, 0, << >>, 0),
      Comp(0, TRUE, TRUE, 100, 0, << >>, 0),
      Comp(1, TRUE, FALSE, 0, 0, << >>, 0),
      Comp(2, TRUE, FALSE, 5, 5, << >>, 0) }

CycleComponentLists ==
    [1..1 -> CycleComponentChoices] \cup [1..2 -> CycleComponentChoices]

InitCycle ==
    /\ \E first \in CycleComponentLists, second \in CycleComponentLists :
         LET bodies == <<Even(GlyphBytes(Simple(30, 20))),
                         Even(ComponentsBytes(first)),
                         Even(ComponentsBytes(second))>>
             glyf == Flatten(bodies)
             loca == Flatten([k \in 1..4 |->
                                U16(SumBody(bodies, k - 1) \div 2)])
         IN /\ font = [data |-> glyf \o loca, fontSize |-> 8, beyond |-> 0]
            /\ info = [NoInfo EXCEPT !.glyf = Ptr(0),
                                     !.loca = Ptr(Len(glyf)),
                                     !.numGlyphs = 3]
            /\ call = [fn |-> "getGlyphVertices", arg |-> <<first, second>>,
                       done |-> FALSE, result |-> Ok(0)]
    /\ pc = "getGlyphVertices"
    /\ err = ""
    /\ idx = 0
    /\ rects = [i \in Chars |-> NoRect]
    /\ has_missing_glyph = FALSE
    /\ atlas = NoAtlas
    /\ missing_glyph = 0 - 1
    /\ rendered = << >>
    /\ returned = << >>
    /\ maxRead = 0 - 1

NextCycle == CallGetGlyphVertices

SpecCycle == InitCycle /\ [][NextCycle]_vars

----------------------------------------------------------------------------
(* tesselateQuad: flattening of one quadratic curve, in the float          *)
(* arithmetic of the code.  A float is [m, e], the number m * 2^e, with m  *)
(* = 0 or 2^23 <= |m| < 2^24; every operation rounds its exact result to   *)
(* the nearest float, ties to even.  No value comes near the ends of the   *)
(* exponent range, so overflow and subnormals are left out.                *)

TwoTo == [i \in 0..30 |-> Pow2(i)]

\* the number of bits of a, for 0 < a < 2^31
BitLen(a) ==
    IF a < TwoTo[16]
    THEN IF a < TwoTo[8]
         THEN IF a < TwoTo[4]
              THEN IF a < TwoTo[2] THEN (IF a < TwoTo[1] THEN 1 ELSE 2)
                   ELSE (IF a < TwoTo[3] THEN 3 ELSE 4)
              ELSE IF a < TwoTo[6] THEN (IF a < TwoTo[5] THEN 5 ELSE 6)
                   ELSE (IF a < TwoTo[7] THEN 7 ELSE 8)
         ELSE IF a < TwoTo[12]
              THEN IF a < TwoTo[10] THEN (IF a < TwoTo[9] THEN 9 ELSE 10)
                   ELSE (IF a < TwoTo[11] THEN 11 ELSE 12)
              ELSE IF a < TwoTo[14] THEN (IF a < TwoTo[13] THEN 13 ELSE 14)
                   ELSE (IF a < TwoTo[15] THEN 15 ELSE 16)
    ELSE IF a < TwoTo[24]
         THEN IF a < TwoTo[20]
              THEN IF a < TwoTo[18] THEN (IF a < TwoTo[17] THEN 17 ELSE 18)
                   ELSE (IF a < TwoTo[19] THEN 19 ELSE 20)
              ELSE IF a < TwoTo[22] THEN (IF a < TwoTo[21] THEN 21 ELSE 22)
                   ELSE (IF a < TwoTo[23] THEN 23 ELSE 24)
         ELSE IF a < TwoTo[28]
              THEN IF a < TwoTo[26] THEN (IF a < TwoTo[25] THEN 25 ELSE 26)
                   ELSE (IF a < TwoTo[27] THEN 27 ELSE 28)
              ELSE IF a < TwoTo[30] THEN (IF a < TwoTo[29] THEN 29 ELSE 30)
                   ELSE 31

FZero == [m |-> 0, e |-> 0]

\* the float nearest to sign * (a + frac) * 2^e for a of len bits, where
\* frac is some fraction in (0, 1) when sticky and 0 otherwise
FRoundLen(sign, a, e, sticky, len) ==
    IF len <= 24
    THEN [m |-> sign * a * TwoTo[24 - len], e |-> e - (24 - len)]
    ELSE LET sh == len - 24
             q == a \div TwoTo[sh]
             r == a % TwoTo[sh]
             half == TwoTo[sh - 1]
             up == r > half \/ (r = half /\ (sticky \/ q % 2 = 1))
         IN IF up /\ q + 1 = TwoTo[24]
            THEN [m |-> sign * TwoTo[23], e |-> e + sh + 1]
            ELSE [m |-> sign * (IF up THEN q + 1 ELSE q), e |-> e + sh]

FRound(sign, a, e, sticky) ==
    IF a = 0 THEN FZero ELSE FRoundLen(sign, a, e, sticky, BitLen(a))

\* the float of an int below 2^31 in size
FromInt(n) ==
    IF n < 0 THEN FRound(0 - 1, 0 - n, 0, FALSE) ELSE FRound(1, n, 0, FALSE)

\* the float nearest to (M + frac) * 2^e
FSum(M, e, sticky) ==
    IF M >= 0 THEN FRound(1, M, e, sticky)
    ELSE IF sticky THEN FRound(0 - 1, (0 - M) - 1, e, TRUE)
    ELSE FRound(0 - 1, 0 - M, e, FALSE)

\* big + small for big.e >= small.e, neither 0: six guard bits and a sticky
\* bit; a small operand below a quarter of big's last place changes nothing
FAddOrdered(big, small) ==
    LET d == big.e - small.e IN
    IF d >= 26 THEN big
    ELSE FSum(big.m * 64 + ((small.m * 64) \div TwoTo[d]), big.e - 6,
              (small.m * 64) % TwoTo[d] # 0)

\* a + b
FAdd(a, b) ==
    IF a.m = 0 THEN b
    ELSE IF b.m = 0 THEN a
    ELSE IF a.e >= b.e THEN FAddOrdered(a, b)
    ELSE FAddOrdered(b, a)

\* a - b
FSub(a, b) == FAdd(a, [m |-> 0 - b.m, e |-> b.e])

\* a * 2^k, exact
FScale(a, k) == IF a.m = 0 THEN a ELSE [m |-> a.m, e |-> a.e + k]

\* the product of two mantissas split in halves of 12 bits, times 2^e
FMulParts(sign, h1, l1, h2, l2, e) ==
    LET c == h1 * l2 + l1 * h2
        low == l1 * l2 + (c % TwoTo[12]) * TwoTo[12]
        high == h1 * h2 + c \div TwoTo[12] + low \div TwoTo[24]
        rem == low % TwoTo[24]
    IN FRound(sign, high * 64 + rem \div TwoTo[18], e + 18,
              rem % TwoTo[18] # 0)

\* a * b
FMul(a, b) ==
    IF a.m = 0 \/ b.m = 0 THEN FZero
    ELSE FMulParts(IF (a.m < 0) = (b.m < 0) THEN 1 ELSE 0 - 1,
                   Abs(a.m) \div TwoTo[12], Abs(a.m) % TwoTo[12],
                   Abs(b.m) \div TwoTo[12], Abs(b.m) % TwoTo[12],
                   a.e + b.e)

\* a > b
FGreater(a, b) ==
    IF a.m <= 0
    THEN IF b.m >= 0 THEN FALSE
         ELSE IF a.m = 0 THEN TRUE
         ELSE a.e < b.e \/ (a.e = b.e /\ a.m > b.m)
    ELSE IF b.m <= 0 THEN TRUE
    ELSE a.e > b.e \/ (a.e = b.e /\ a.m > b.m)

\* the value of a set of one element: binds a local of the code to its
\* value once
The(S) == CHOOSE r \in S : TRUE

RECURSIVE tesselateQuad(_, _, _, _, _, _, _, _)

\* the body of tesselateQuad once mx and my are known: the points appended
\* and the number of recursive calls made
QuadSplit(q, mx, my, eps2, depth) ==
    LET dx == FSub(FScale(FAdd(q.x0, q.x2), 0 - 1), mx)
        dy == FSub(FScale(FAdd(q.y0, q.y2), 0 - 1), my)
    IN IF FGreater(FAdd(FMul(dx, dx), FMul(dy, dy)), eps2)
       THEN LET left == tesselateQuad(q.x0, q.y0,
                                      FScale(FAdd(q.x0, q.x1), 0 - 1),
                                      FScale(FAdd(q.y0, q.y1), 0 - 1),
                                      mx, my, eps2, depth + 1)
                right == tesselateQuad(mx, my,
                                       FScale(FAdd(q.x1, q.x2), 0 - 1),
                                       FScale(FAdd(q.y1, q.y2), 0 - 1),
                                       q.x2, q.y2, eps2, depth + 1)
            IN [points |-> left.points \o right.points,
                calls |-> 2 + left.calls + right.calls]
       ELSE [points |-> <<[x |-> q.x2, y |-> q.y2]>>, calls |-> 0]

\* tesselateQuad from (x0, y0) by control point (x1, y1) to (x2, y2)
tesselateQuad(x0, y0, x1, y1, x2, y2, eps2, depth) ==
    IF depth > 16 THEN [points |-> << >>, calls |-> 0]
    ELSE The({ The({ QuadSplit(q, m[1], m[2], eps2, depth) :
                     m \in {<<FScale(FAdd(FAdd(q.x0, FScale(q.x1, 1)), q.x2),
                                     0 - 2),
                              FScale(FAdd(FAdd(q.y0, FScale(q.y1, 1)), q.y2),
                                     0 - 2)>>} }) :
               q \in {[x0 |-> x0, y0 |-> y0, x1 |-> x1, y1 |-> y1,
                       x2 |-> x2, y2 |-> y2]} })

\* whole coordinates of the three points, and eps = 1/2, 1, 2
QuadXChoices == {0, 1, 4, 8}

QuadYChoices == {0, 2, 8}

Eps2Choices == {FScale(FromInt(1), 0 - 2), FromInt(1), FromInt(4)}

\* a curve flattened with a tolerance far below its size: eps = 2^-21 on a
\* curve 16384 units long
FineQuads ==
    { [x0 |-> 16384, y0 |-> 0, x1 |-> 0, y1 |-> 0, x2 |-> 0, y2 |-> 0,
       eps2 |-> FScale(FromInt(1), 0 - 42)] }

InitQuad ==
    /\ \E a \in FineQuads \cup
                 [x0 : QuadXChoices, y0 : QuadYChoices,
                  x1 : QuadXChoices, y1 : QuadYChoices,
                  x2 : QuadXChoices, y2 : QuadYChoices,
                  eps2 : Eps2Choices] :
         call = [fn |-> "tesselateQuad", arg |-> a,
                 done |-> FALSE, result |-> Ok(0)]
    /\ font = [data |-> << >>, fontSize |-> 8, beyond |-> 0]
    /\ info = NoInfo
    /\ pc = "tesselateQuad"
    /\ err = ""
    /\ idx = 0
    /\ rects = [i \in Chars |-> NoRect]
    /\ has_missing_glyph = FALSE
    /\ atlas = NoAtlas
    /\ missing_glyph = 0 - 1
    /\ rendered = << >>
    /\ returned = << >>
    /\ maxRead = 0 - 1

\* the call linearizeCurves makes for a QUAD vertex, on an empty point list
CallTesselateQuad ==
    /\ pc = "tesselateQuad"
    /\ ~call.done
    /\ LET a == call.arg IN
       call' = [call EXCEPT
                  !.done = TRUE,
                  !.result = tesselateQuad(FromInt(a.x0), FromInt(a.y0),
                                           FromInt(a.x1), FromInt(a.y1),
                                           FromInt(a.x2), FromInt(a.y2),
                                           a.eps2, 0)]
    /\ UNCHANGED atlasVars

NextQuad == CallTesselateQuad

SpecQuad == InitQuad /\ [][NextQuad]_vars

----------------------------------------------------------------------------
(* packRects applied to the rectangles getGlyphRects can leave: w and h    *)
(* are differences of box corners (negative for a box whose maximum lies   *)
(* below its minimum), a rect flagged missing holds unassigned w and h,    *)
(* and rects[0] is never flagged missing.                                  *)

\* atlas.img.reset(new uint8_t[atlas.width * atlas.height]())
AtlasImg(a) == [k \in 1..(a.width * a.height) |-> 0]

RectChoices ==
    { [x |-> 0, y |-> 0, w |-> 0, h |-> 0, missing |-> FALSE],
      [x |-> 0, y |-> 0, w |-> 100, h |-> 3, missing |-> FALSE],
      [x |-> 0, y |-> 0, w |-> 40, h |-> 3, missing |-> FALSE],
      [x |-> 0, y |-> 0, w |-> 155, h |-> 2, missing |-> FALSE],
      [x |-> 0, y |-> 0, w |-> 254, h |-> 1, missing |-> FALSE],
      [x |-> 0, y |-> 0, w |-> 60, h |-> 0 - 2, missing |-> FALSE],
      [x |-> 0, y |-> 0, w |-> 0, h |-> 0, missing |-> TRUE] }

InitPack ==
    /\ \E rs \in [Chars -> RectChoices] :
         /\ ~rs[0].missing
         /\ rects = rs
    /\ call = [fn |-> "packRects", arg |-> << >>, done |-> FALSE,
               result |-> Ok(0)]
    /\ font = [data |-> << >>, fontSize |-> 8, beyond |-> 0]
    /\ info = NoInfo
    /\ pc = "packRects"
    /\ err = ""
    /\ idx = 0
    /\ has_missing_glyph = FALSE
    /\ atlas = NoAtlas
    /\ missing_glyph = 0 - 1
    /\ rendered = << >>
    /\ returned = << >>
    /\ maxRead = 0 - 1

\* packRects with the bitmap it allocates kept in call.result
CallPackRects ==
    /\ pc = "packRects"
    /\ ~call.done
    /\ \E g \in [Chars -> IndeterminateH] :
         \E order \in SortedOrders([i \in Chars |->
                                      IF rects[i].missing THEN g[i]
                                      ELSE rects[i].h]) :
            LET p == packRects(rects, order)
            IN /\ rects' = p.rects
               /\ atlas' = p.atlas
               /\ call' = [call EXCEPT !.arg = rects,
                                       !.done = TRUE,
                                       !.result = Ok(AtlasImg(p.atlas))]
    /\ UNCHANGED <<font, pc, err, info, idx, has_missing_glyph,
                   missing_glyph, rendered, returned, maxRead>>

NextPack == CallPackRects

SpecPack == InitPack /\ [][NextPack]_vars

----------------------------------------------------------------------------
(* renderGlyph from the CurveSet on, at scale 1.  The floats of Edge, row  *)
(* and rowSum are held as integers in units of 1/Sub.  The contours drawn  *)
(* have whole-number points and edges of slope 0, 1/2, 1, 2 or vertical,   *)
(* so every product and quotient below is exact in float and in these      *)
(* units, and the order in which a row's edges are added does not matter.  *)

Sub == Pow2(8)

\* a quotient of floats that is exact: the sign is taken out so that the
\* integer division never rounds a negative value
Quot(a, b) ==
    IF b < 0 THEN (IF a > 0 THEN 0 - (a \div (0 - b)) ELSE (0 - a) \div (0 - b))
    ELSE IF a < 0 THEN 0 - ((0 - a) \div b)
    ELSE a \div b

\* a product of two floats
Prod(a, b) == Quot(a * b, Sub)

\* (int) v
Trunc(v) == Quot(v, Sub)

\* the CurveSet of contours given as point lists
CurveSetOf(contours) ==
    [points |-> Flatten(contours),
     contourEnds |-> [i \in 1..Len(contours) |-> SumBody(contours, i)]]

\* an edge construction that gives every Edge the sign +1
EdgeOf_AlwaysPositive(pj, pk, box) ==
    IF pj.y = pk.y THEN << >>
    ELSE LET dx == Quot((pj.x - pk.x) * Sub, pk.y - pj.y)
             dy == IF dx # 0 THEN Quot(Sub * Sub, dx) ELSE 0
         IN IF pj.y < pk.y
            THEN <<[dx |-> dx, dy |-> dy, sign |-> 1,
                    sy |-> (0 - pk.y) * Sub, ey |-> (0 - pj.y) * Sub,
                    sx |-> (pk.x - box.x0) * Sub]>>
            ELSE <<[dx |-> dx, dy |-> dy, sign |-> 1,
                    sy |-> (0 - pj.y) * Sub, ey |-> (0 - pk.y) * Sub,
                    sx |-> (pj.x - box.x0) * Sub]>>

\* the Edge of the segment from p[j] to p[k], in a list of its own; no Edge
\* when the two points have the same y
EdgeOf(pj, pk, box) ==
    IF pj.y = pk.y THEN << >>
    ELSE LET dx == Quot((pj.x - pk.x) * Sub, pk.y - pj.y)
             dy == IF dx # 0 THEN Quot(Sub * Sub, dx) ELSE 0
         IN IF pj.y < pk.y
            THEN <<[dx |-> dx, dy |-> dy, sign |-> 1,
                    sy |-> (0 - pk.y) * Sub, ey |-> (0 - pj.y) * Sub,
                    sx |-> (pk.x - box.x0) * Sub]>>
            ELSE <<[dx |-> dx, dy |-> dy, sign |-> 0 - 1,
                    sy |-> (0 - pj.y) * Sub, ey |-> (0 - pk.y) * Sub,
                    sx |-> (pj.x - box.x0) * Sub]>>

\* the loops that fill edges[]: contour i runs over p[k] for k from the end
\* of contour i - 1 to contourEnds[i] - 1, j being the point before k and
\* the last point of the contour for its first k
EdgesOf(cs, box) ==
    Flatten([i \in 1..Len(cs.contourEnds) |->
        LET first == IF i = 1 THEN 1 ELSE cs.contourEnds[i - 1] + 1
            last == cs.contourEnds[i]
        IN Flatten([n \in 1..(last - first + 1) |->
               LET k == first + n - 1
                   j == IF n = 1 THEN last ELSE k - 1
               IN EdgeOf(cs.points[j], cs.points[k], box)])])

\* sort(edges, edges + n, by sy): insertion from the left
RECURSIVE SortBySy(_)
SortBySy(edges) ==
    IF edges = << >> THEN << >>
    ELSE LET rest == SortBySy(Tail(edges))
             e == Head(edges)
             before == SelectSeq(rest, LAMBDA r : r.sy < e.sy)
             after == SelectSeq(rest, LAMBDA r : ~(r.sy < e.sy))
         IN before \o <<e>> \o after

\* an area measured from the left side of the pixel
insidePixelArea_FromLeft(x, x0, y0, x1, y1) ==
    Prod(y1 - y0, x * Sub - Quot(x0 + x1, 2))

\* (y1 - y0) * (x + 1 - (x0 + x1)/2)
insidePixelArea(x, x0, y0, x1, y1) ==
    Prod(y1 - y0, (x + 1) * Sub - Quot(x0 + x1, 2))

\* row[x] += v, rowSum[x] += w on st = [row, rowSum, touched]; touched
\* collects every index x at which row[] or rowSum[] was read or written.
\* row[x] with x outside 0..width-1 is an access outside the array, whose
\* outcome is undefined: the index is recorded, and no property reads the
\* values of a run in which it happened
AddAt(st, x, v, w) ==
    [row |-> IF x \in DOMAIN st.row THEN [st.row EXCEPT ![x] = @ + v]
             ELSE st.row,
     rowSum |-> IF x \in DOMAIN st.rowSum
                THEN [st.rowSum EXCEPT ![x] = @ + w]
                ELSE st.rowSum,
     touched |-> st.touched \cup {x}]

\* the loop for(; x < x2; ++x) of rasterizeEdge
RECURSIVE TrapezoidRun(_, _, _, _, _)
TrapezoidRun(row, x, x2, signed_area, step_rect) ==
    IF x >= x2 THEN [row |-> row, signed_area |-> signed_area]
    ELSE TrapezoidRun([row EXCEPT ![x] = @ + signed_area
                                             + Quot(step_rect, 2)],
                      x + 1, x2, signed_area + step_rect, step_rect)

\* rasterizeEdge(e, rowTop, row, rowSum, width) on st = [row, rowSum,
\* touched], where st.rowSum[x] is the rowSum[x] of rasterizeEdge
rasterizeEdge(e, rowTop, st, width) ==
    LET rowBot == rowTop + Sub IN
    IF e.dx = 0
    THEN IF e.sx >= width * Sub THEN st
         ELSE LET x == Trunc(e.sx)
                  y0 == Max(e.sy, rowTop)
                  y1 == Min(e.ey, rowBot)
              IN AddAt(st, x,
                       e.sign * insidePixelArea(x, e.sx, y0, e.sx, y1),
                       e.sign * (y1 - y0))
    ELSE
    LET ext0 == IF e.sy > rowTop THEN e.sx
                ELSE e.sx + Prod(e.dx, rowTop - e.sy)
        eyt == IF e.sy > rowTop THEN e.sy ELSE rowTop
        exb0 == IF e.ey < rowBot THEN e.sx + Prod(e.dx, e.ey - e.sy)
                ELSE e.sx + Prod(e.dx, rowBot - e.sy)
        eyb == IF e.ey < rowBot THEN e.ey ELSE rowBot
    IN IF Trunc(ext0) = Trunc(exb0)
       THEN LET x == Trunc(ext0) IN
            IF x < 0 \/ x >= width THEN st
            ELSE AddAt(st, x,
                       e.sign * insidePixelArea(x, ext0, eyt, exb0, eyb),
                       e.sign * (eyb - eyt))
       ELSE
       LET ext == Min(ext0, exb0)
           exb == Max(ext0, exb0)
           dy == IF ext0 > exb0 THEN 0 - e.dy ELSE e.dy
       IN IF exb < 0 \/ ext >= width * Sub THEN st
          ELSE
          LET x1 == Trunc(ext)
              step_rect == e.sign * dy
              first_area == Prod(step_rect, (x1 + 1) * Sub - ext)
              row1 == IF x1 >= 0
                      THEN [st.row EXCEPT ![x1] =
                              @ + Quot(Prod(first_area,
                                            (x1 + 1) * Sub - ext), 2)]
                      ELSE st.row
              x == IF x1 < 0 /\ x1 + 1 < 0 THEN 0 ELSE x1 + 1
              signed_area == IF x1 < 0 /\ x1 + 1 < 0
                             THEN first_area - (x1 + 1) * step_rect
                             ELSE first_area
              x2 == Min(Trunc(exb), width)
              run == TrapezoidRun(row1, x, x2, signed_area, step_rect)
              ycut == eyt + Prod(dy, x2 * Sub - ext)
              ran == [row |-> run.row, rowSum |-> st.rowSum,
                      touched |-> st.touched
                                    \cup (IF x1 >= 0 THEN {x1} ELSE {})
                                    \cup (x..(x2 - 1))]
          IN IF x2 >= width THEN ran
             ELSE AddAt(ran, x2,
                        run.signed_area
                          + e.sign * insidePixelArea(x2, x2 * Sub, ycut,
                                                     exb, eyb),
                        e.sign * (eyb - eyt))

\* for(int i : active) rasterizeEdge(edges[i], ...), from position k on
RECURSIVE RasterizeActive(_, _, _, _, _, _)
RasterizeActive(edges, active, k, rowTop, st, width) ==
    IF k > Len(active) THEN st
    ELSE RasterizeActive(edges, active, k + 1, rowTop,
                         rasterizeEdge(edges[active[k]], rowTop, st, width),
                         width)

\* a row accumulation that adds rowSum[i] of its own column to pixel i
RECURSIVE RowValues_OwnColumn(_, _, _, _)
RowValues_OwnColumn(st, i, sum, width) ==
    IF i >= width THEN << >>
    ELSE LET sum1 == sum + st.rowSum[i]
             v == Quot((st.row[i] + sum1) * 256, Sub)
         IN <<v>> \o RowValues_OwnColumn(st, i + 1, sum1, width)

\* a conversion that rounds c * 256 to the nearest int, halves upwards
Scale256_Nearest(c, unit) ==
    IF c < 0 THEN 0 - ((0 - c) * 512 + unit) \div (2 * unit)
    ELSE (c * 512 + unit) \div (2 * unit)

\* int(c * 256.f) for c in units of 1/unit: the conversion drops the
\* fraction, towards zero
Scale256(c, unit) == Quot(c * 256, unit)

\* the running sum of one row: int((row[i] + sum)*256.f) for each pixel i,
\* where sum holds the rowSum of the columns left of i
RECURSIVE RowValues(_, _, _, _)
RowValues(st, i, sum, width) ==
    IF i >= width THEN << >>
    ELSE LET sum1 == sum + (IF i = 0 THEN 0 ELSE st.rowSum[i - 1])
             v == Scale256(st.row[i] + sum1, Sub)
         IN <<v>> \o RowValues(st, i + 1, sum1, width)

\* clamp(v, 0, 255)
Clamp(v) == Max(0, Min(v, 255))

\* numeric_limits<float>::max(), the sy of the sentinel edges[n]: above the
\* rowBot of every row drawn
FLT_MAX == Pow2(30)

\* edges[0..n]: the sorted edges and the sentinel, of which only sy is set
WithSentinel(sorted) == sorted \o <<[sy |-> FLT_MAX]>>

\* the position after the edges from position e on whose sy <= rowBot:
\* for(; e->sy <= rowBot; ++e)
RECURSIVE PushEnd(_, _, _)
PushEnd(edges, e, rowBot) ==
    IF edges[e].sy <= rowBot
    THEN PushEnd(edges, e + 1, rowBot)
    ELSE e

\* a removal loop that moves on after every removal, past the entry that
\* was moved into the freed place
RECURSIVE RemoveEnded_SkipSwapped(_, _, _, _)
RemoveEnded_SkipSwapped(edges, active, i, rowTop) ==
    IF i > Len(active) THEN active
    ELSE IF edges[active[i]].ey <= rowTop
    THEN RemoveEnded_SkipSwapped(edges,
             SubSeq([active EXCEPT ![i] = active[Len(active)]],
                    1, Len(active) - 1),
             i + 1, rowTop)
    ELSE RemoveEnded_SkipSwapped(edges, active, i + 1, rowTop)

\* the removal loop from place i on: an entry whose edge has ey <= rowTop
\* is overwritten by active.back(), the list is popped, and place i is
\* looked at again
RECURSIVE RemoveEnded(_, _, _, _)
RemoveEnded(edges, active, i, rowTop) ==
    IF i > Len(active) THEN active
    ELSE IF edges[active[i]].ey <= rowTop
    THEN RemoveEnded(edges,
             SubSeq([active EXCEPT ![i] = active[Len(active)]],
                    1, Len(active) - 1),
             i, rowTop)
    ELSE RemoveEnded(edges, active, i + 1, rowTop)

\* the active list and the sweep pointer of row j once both loops have run,
\* from the list and the pointer the row before left
SweepRow(edges, box, j, active, e) ==
    LET rowTop == (box.y0 + j) * Sub
        rowBot == rowTop + Sub
        kept == RemoveEnded(edges, active, 1, rowTop)
        e1 == PushEnd(edges, e, rowBot)
    IN [active |-> kept \o [n \in 1..(e1 - e) |-> e + n - 1], e |-> e1]

\* fill_n(row.get(), 2*glyphW+1, 0.f)
ClearedRow(glyphW) ==
    [row |-> [x \in 0..(glyphW - 1) |-> 0],
     rowSum |-> [x \in 0..(glyphW - 1) |-> 0],
     touched |-> {}]

\* the loop over the rows j..glyphH-1 of renderGlyph: the values of each
\* row before they are clamped
RECURSIVE GlyphRows(_, _, _, _, _)
GlyphRows(edges, box, j, active, e) ==
    LET glyphW == box.x1 - box.x0
        glyphH == box.y1 - box.y0
        rowTop == (box.y0 + j) * Sub
        swept == SweepRow(edges, box, j, active, e)
        e1 == swept.e
        active1 == swept.active
        st == RasterizeActive(edges, active1, 1, rowTop,
                              ClearedRow(glyphW), glyphW)
    IN IF j >= glyphH THEN << >>
       ELSE <<RowValues(st, 0, 0, glyphW)>>
            \o GlyphRows(edges, box, j + 1, active1, e1)

\* for each of the rows j..glyphH-1: the active list and the sweep pointer
\* at the moment the row is rasterized, and the indexes of row[] and
\* rowSum[] that rasterizeEdge used for the edges of the list
RECURSIVE Sweep(_, _, _, _, _)
Sweep(edges, box, j, active, e) ==
    IF j >= box.y1 - box.y0 THEN << >>
    ELSE LET r == SweepRow(edges, box, j, active, e)
             st == RasterizeActive(edges, r.active, 1, (box.y0 + j) * Sub,
                                   ClearedRow(box.x1 - box.x0),
                                   box.x1 - box.x0)
         IN <<[active |-> r.active, e |-> r.e, touched |-> st.touched]>>
            \o Sweep(edges, box, j + 1, r.active, r.e)

\* renderGlyph(info, img + at, imgWidth, 1, glyphID) for a glyph with the
\* given box and CurveSet: the image after the call
renderGlyphImg(box, cs, img, at, imgWidth) ==
    LET glyphW == box.x1 - box.x0
        glyphH == box.y1 - box.y0
    IN IF glyphW = 0 \/ glyphH = 0 THEN img
       ELSE IF Len(cs.contourEnds) = 0 THEN img
       ELSE LET rows == GlyphRows(WithSentinel(SortBySy(EdgesOf(cs, box))),
                                  box, 0, << >>, 1)
            IN [q \in DOMAIN img |->
                  LET j == (q - at) \div imgWidth
                      i == (q - at) % imgWidth
                  IN IF q >= at /\ j < glyphH /\ i < glyphW
                     THEN Clamp(rows[j + 1][i + 1])
                     ELSE img[q]]

\* most contours of the glyph drawn
MaxContours == 2

\* a rectangle with corners (a, b) and (c, d), a < c, b < d, clockwise in
\* the font's coordinates (y up): up the left side, down the right side
RectCW(a, b, c, d) ==
    <<[x |-> a, y |-> b], [x |-> a, y |-> d],
      [x |-> c, y |-> d], [x |-> c, y |-> b]>>

Reverse(seq) == [k \in 1..Len(seq) |-> seq[Len(seq) + 1 - k]]

\* clockwise rectangles (the unit square among them), a clockwise diamond
\* and two clockwise triangles with sides of slope 1/2 and 2, and the same
\* shapes counter-clockwise
ClockwiseChoices ==
    { RectCW(1, 1, 2, 2), RectCW(2, 2, 4, 4), RectCW(3, 1, 5, 3),
      <<[x |-> 3, y |-> 1], [x |-> 1, y |-> 3],
        [x |-> 3, y |-> 5], [x |-> 5, y |-> 3]>>,
      <<[x |-> 1, y |-> 1], [x |-> 3, y |-> 5], [x |-> 5, y |-> 1]>>,
      <<[x |-> 1, y |-> 1], [x |-> 5, y |-> 3], [x |-> 5, y |-> 1]>> }

ContourChoices ==
    ClockwiseChoices \cup {Reverse(c) : c \in ClockwiseChoices}

ContourSets == UNION { [1..n -> ContourChoices] : n \in 1..MaxContours }

MinOf(S) == CHOOSE x \in S : \A y \in S : x <= y

\* getGlyphBox at scale 1 for a glyph whose header box is the bounding box
\* of its points widened by margin on every side
BoxAround(contours, margin) ==
    LET pts == UNION {{contours[i][k] : k \in 1..Len(contours[i])} :
                        i \in 1..Len(contours)}
        xs == {q.x : q \in pts}
        ys == {q.y : q \in pts}
    IN [x0 |-> MinOf(xs) - margin, y0 |-> 0 - (MaxOf(ys) + margin),
        x1 |-> MaxOf(xs) + margin, y1 |-> 0 - (MinOf(ys) - margin)]

MarginChoices == {0, 1}

\* the atlas region around the glyph: its rectangle and one pixel of
\* padding on every side, all 0 before the glyph is rendered
InitRaster ==
    /\ \E contours \in ContourSets, margin \in MarginChoices :
         LET box == BoxAround(contours, margin)
             imgWidth == box.x1 - box.x0 + 2 * padding
             imgHeight == box.y1 - box.y0 + 2 * padding
         IN call = [fn |-> "renderGlyph",
                    arg |-> [contours |-> contours, box |-> box,
                             imgWidth |-> imgWidth,
                             at |-> padding * imgWidth + padding,
                             img |-> [q \in 0..(imgWidth * imgHeight - 1)
                                        |-> 0]],
                    done |-> FALSE, result |-> Ok(0)]
    /\ font = [data |-> << >>, fontSize |-> 8, beyond |-> 0]
    /\ info = NoInfo
    /\ pc = "renderGlyph"
    /\ err = ""
    /\ idx = 0
    /\ rects = [i \in Chars |-> NoRect]
    /\ has_missing_glyph = FALSE
    /\ atlas = NoAtlas
    /\ missing_glyph = 0 - 1
    /\ rendered = << >>
    /\ returned = << >>
    /\ maxRead = 0 - 1

CallRenderGlyph ==
    /\ pc = "renderGlyph"
    /\ ~call.done
    /\ LET a == call.arg IN
       call' = [call EXCEPT
                  !.done = TRUE,
                  !.result = Ok(renderGlyphImg(a.box, CurveSetOf(a.contours),
                                               a.img, a.at, a.imgWidth))]
    /\ UNCHANGED atlasVars

NextRaster == CallRenderGlyph

SpecRaster == InitRaster /\ [][NextRaster]_vars

----------------------------------------------------------------------------
(* The row sweep of renderGlyph alone: the active list, the sweep pointer *)
(* and the indexes rasterizeEdge uses at each row.  The box comes from the *)
(* glyph header and the edges from the outline, so the outline may reach   *)
(* out of the box: a cut is by how much one side of the header box lies    *)
(* inside the bounding box of the outline.                                 *)

CutChoices ==
    { [top |-> 0, left |-> 0, right |-> 0],
      [top |-> 2, left |-> 0, right |-> 0],
      [top |-> 0, left |-> 2, right |-> 0],
      [top |-> 0, left |-> 0, right |-> 2] }

\* the header box of the contours: their bounding box cut, or widened by 1
HeaderBoxes(contours) ==
    {BoxAround(contours, 1)}
    \cup { [BoxAround(contours, 0) EXCEPT !.y0 = @ + cut.top,
                                          !.x0 = @ + cut.left,
                                          !.x1 = @ - cut.right] :
             cut \in CutChoices }

\* renderGlyph goes on to the sweep when the box has a width and a height
InitSweep ==
    /\ \E contours \in ContourSets :
       \E box \in HeaderBoxes(contours) :
         /\ box.x1 - box.x0 > 0
         /\ box.y1 - box.y0 > 0
         /\ call = [fn |-> "sweep",
                    arg |-> [contours |-> contours, box |-> box,
                             edges |-> WithSentinel(SortBySy(
                                 EdgesOf(CurveSetOf(contours), box)))],
                    done |-> FALSE, result |-> Ok(<< >>)]
    /\ font = [data |-> << >>, fontSize |-> 8, beyond |-> 0]
    /\ info = NoInfo
    /\ pc = "renderGlyph"
    /\ err = ""
    /\ idx = 0
    /\ rects = [i \in Chars |-> NoRect]
    /\ has_missing_glyph = FALSE
    /\ atlas = NoAtlas
    /\ missing_glyph = 0 - 1
    /\ rendered = << >>
    /\ returned = << >>
    /\ maxRead = 0 - 1

CallSweep ==
    /\ pc = "renderGlyph"
    /\ ~call.done
    /\ call' = [call EXCEPT
                  !.done = TRUE,
                  !.result = Ok(Sweep(call.arg.edges, call.arg.box, 0,
                                      << >>, 1))]
    /\ UNCHANGED atlasVars

NextSweep == CallSweep

SpecSweep == InitSweep /\ [][NextSweep]_vars

----------------------------------------------------------------------------
(* The pixel write of renderGlyph alone: the byte stored for the local     *)
(* coverage row[i] and the running sum, both in units of 1/Fine, a quarter *)
(* of the step between two bytes.                                          *)

Fine == Pow2(10)

\* coverages around 0 and around 1
LocalChoices == ((0 - 8)..8) \cup ((Fine - 12)..(Fine + 8))

\* running sums of no edge, of a sliver, of a whole pixel either way
SumChoices == {0 - Fine, 0, 4, Fine}

\* img[j*imgWidth + i] = clamp(int((row[i] + sum)*256.f), 0, 255)
PixelWrite(local, sum) == Clamp(Scale256(local + sum, Fine))

InitPixel ==
    /\ \E local \in LocalChoices, sum \in SumChoices :
         call = [fn |-> "pixel", arg |-> [local |-> local, sum |-> sum],
                 done |-> FALSE, result |-> Ok(0)]
    /\ font = [data |-> << >>, fontSize |-> 8, beyond |-> 0]
    /\ info = NoInfo
    /\ pc = "renderGlyph"
    /\ err = ""
    /\ idx = 0
    /\ rects = [i \in Chars |-> NoRect]
    /\ has_missing_glyph = FALSE
    /\ atlas = NoAtlas
    /\ missing_glyph = 0 - 1
    /\ rendered = << >>
    /\ returned = << >>
    /\ maxRead = 0 - 1

CallPixelWrite ==
    /\ pc = "renderGlyph"
    /\ ~call.done
    /\ call' = [call EXCEPT
                  !.done = TRUE,
                  !.result = Ok(PixelWrite(call.arg.local, call.arg.sum))]
    /\ UNCHANGED atlasVars

NextPixel == CallPixelWrite

SpecPixel == InitPixel /\ [][NextPixel]_vars

----------------------------------------------------------------------------
(* Properties of getTTFAtlas *)

\* the glyph ID the selected cmap subtable gives character j of the range
GlyphOf(j) == charCode2GlyphID(font.data, info.cmap.off, firstChar + j).val

\* the characters of the range whose code point maps to glyph 0
Unmapped == {j \in Chars : GlyphOf(j) = 0}

LowestUnmapped == CHOOSE m \in Unmapped : \A j \in Unmapped : m <= j

\* the positions in the log of rasterizations that are for character j
RenderedFor(j) == {k \in 1..Len(rendered) : rendered[k].char = j}

\* C1: after getTTFAtlas succeeds every character's rectangle satisfies
\* 0 <= x0 <= x1 <= atlas.width and 0 <= y0 <= y1 <= atlas.height, whatever
\* the glyph box widths and heights are.
C1_RectInsideAtlas ==
    pc = "done" =>
        \A j \in Chars :
            LET cp == returned[1].charPositions[j] IN
            /\ 0 <= cp.x0 /\ cp.x0 <= cp.x1 /\ cp.x1 <= returned[1].width
            /\ 0 <= cp.y0 /\ cp.y0 <= cp.y1 /\ cp.y1 <= returned[1].height

\* TRUE when rectangles a and b lie on one shelf with at least `padding`
\* pixels between them, or on two shelves with at least `padding` rows
\* between them
Separated(a, b) ==
    IF a.y = b.y
    THEN a.x + a.w + padding <= b.x \/ b.x + b.w + padding <= a.x
    ELSE a.y + a.h + padding <= b.y \/ b.y + b.h + padding <= a.y

C3_MissingShareOneCharPosition ==
    (pc = "done" /\ Unmapped # {}) =>
        LET cps == returned[1].charPositions
            m == LowestUnmapped
        IN /\ \A j \in Unmapped : cps[j] = cps[m]
           /\ \E k \in RenderedFor(m) :
                /\ rendered[k].glyphID = 0
                /\ rendered[k].x = cps[m].x0
                /\ rendered[k].y = cps[m].y0

\* two unmapped characters after a mapped one, the notdef glyph drawn
C3_Witness ==
    /\ pc = "done"
    /\ Cardinality(Unmapped) >= 2
    /\ LowestUnmapped > 0
    /\ \E k \in RenderedFor(LowestUnmapped) : rendered[k].end = "drawn"

\* the distinct rectangles of the returned atlas
Rectangles ==
    {<<returned[1].charPositions[j].x0, returned[1].charPositions[j].y0,
       returned[1].charPositions[j].x1, returned[1].charPositions[j].y1>> :
        j \in Chars}

\* C4: in one run a glyph is packed and rasterized exactly once for each
\* character with a non-zero glyph ID, and glyph 0 exactly once in total, at
\* the lowest unmapped character; later unmapped characters are copied and
\* not rasterized.  With a single mapped character the atlas holds exactly
\* two distinct rectangles.
C4_EachGlyphOnce ==
    pc = "done" =>
        /\ \A j \in Chars \ Unmapped :
            /\ ~rects[j].missing
            /\ Cardinality(RenderedFor(j)) = 1
            /\ \A k \in RenderedFor(j) : rendered[k].glyphID = GlyphOf(j)
        /\ \A j \in Unmapped :
            IF j = LowestUnmapped
            THEN /\ ~rects[j].missing
                 /\ Cardinality(RenderedFor(j)) = 1
            ELSE /\ rects[j].missing
                 /\ RenderedFor(j) = {}
        /\ Cardinality({k \in 1..Len(rendered) : rendered[k].glyphID = 0})
             = IF Unmapped = {} THEN 0 ELSE 1
        /\ (Cardinality(Chars \ Unmapped) = 1 /\ Unmapped # {})
             => Cardinality(Rectangles) = 2

\* one mapped character, the others sharing the notdef rectangle
C4_Witness ==
    /\ pc = "done"
    /\ Cardinality(Chars \ Unmapped) = 1
    /\ Cardinality(Unmapped) >= 2
    /\ Len(rendered) = 2
    /\ Cardinality(Rectangles) = 2

\* C7: when the first four bytes of the font are not 00 01 00 00, getTTFAtlas
\* fails with "bad TTF tag" and no table lookup, cmap selection, packing or
\* rasterization has run.
C7_BadTagFailsFirst ==
    (Len(font.data) >= 4 /\ SubSeq(font.data, 1, 4) # <<0, 1, 0, 0>>) =>
        /\ pc \in {"start", "error"}
        /\ pc = "error" => err = "bad TTF tag"
        /\ info = NoInfo
        /\ atlas = NoAtlas
        /\ rects = [i \in Chars |-> NoRect]
        /\ rendered = << >>
        /\ returned = << >>
        /\ maxRead <= 3

\* a font that differs from the tag in its fourth byte only is rejected
C7_Witness ==
    /\ SubSeq(font.data, 1, 4) = <<0, 1, 0, 1>>
    /\ pc = "error"
    /\ err = "bad TTF tag"

\* C8: whenever a step of atlas generation raises an error the caller
\* receives no Atlas; an Atlas is handed over only by the final return.
C8_NoAtlasOnError ==
    /\ pc = "error" => returned = << >>
    /\ returned # << >> => pc = "done"

\* an error raised by the second character's glyph after the first
\* character was rasterized into the bitmap
C8_Witness ==
    /\ pc = "error"
    /\ err = "Matching point not implemented..."
    /\ rendered # << >>
    /\ atlas.charPositions[0] # NoCharPosition

----------------------------------------------------------------------------
(* Properties of findAllTables *)

\* TRUE when the table directory, as counted by its header, lies inside the
\* buffer
DirectoryInside == 12 + 16 * readUint16(font.data, 4) <= Len(font.data)

\* TRUE when a record of the table directory carries the tag
HasTag(tag) ==
    \E i \in 0..(readUint16(font.data, 4) - 1) :
        SubSeq(font.data, 12 + 16 * i + 1, 12 + 16 * i + 4) = TagBytes[tag]

\* C5: every byte read lies inside the loaded font buffer; a font that would
\* lead a read outside makes the call fail with an error instead.
C5_ReadsInsideBuffer ==
    /\ maxRead < Len(font.data)
    /\ pc # "crashed"

\* C6: findAllTables throws "Missing tables in TTF file" whenever the
\* directory of a font it reads inside the buffer lacks one of cmap, loca,
\* head, glyf, hhea, hmtx.
C6_MissingTableFails ==
    (pc = "returned" /\ DirectoryInside /\ maxRead < Len(font.data)
     /\ \E t \in {"cmap", "loca", "head", "glyf", "hhea", "hmtx"} :
            ~HasTag(t)) =>
        /\ call.result.thrown
        /\ call.result.msg = "Missing tables in TTF file"

\* the encoding records of the cmap table, by position from 0
RecordQualifies(cmap, i) ==
    LET platform == readUint16(font.data, cmap + 4 + 8 * i)
        encoding == readUint16(font.data, cmap + 4 + 8 * i + 2)
    IN \/ platform = 0 /\ encoding # 14
       \/ platform = 3 /\ encoding \in {1, 10}

\* C9: findAllTables selects the first encoding record, in directory order,
\* with platform 0 and encoding other than 14, or platform 3 and encoding 1
\* or 10; with no such record it throws the unsupported-encoding error.
C9_FirstQualifyingRecord ==
    (pc = "returned" /\ maxRead < Len(font.data) /\ HasTag("cmap")) =>
        LET cmap == fintTableOffset(font.data, TagBytes.cmap)
            n == readUint16(font.data, cmap + 2)
            Q == {i \in 0..(n - 1) : RecordQualifies(cmap, i)}
        IN IF Q = {}
           THEN /\ call.result.thrown
                /\ call.result.msg =
                     "No supported cmap encoding found (only unicode subtables are supported)"
           ELSE LET first == CHOOSE i \in Q : \A k \in Q : i <= k
                IN /\ ~call.result.thrown
                   /\ call.result.val.cmap =
                        Ptr(cmap + readUint32(font.data,
                                              cmap + 4 + 8 * first + 4))

\* the third record is selected after two records that do not qualify
C9_Witness ==
    /\ pc = "returned" /\ maxRead < Len(font.data) /\ HasTag("cmap")
    /\ ~call.result.thrown
    /\ LET cmap == fintTableOffset(font.data, TagBytes.cmap)
       IN /\ readUint16(font.data, cmap + 2) = 3
          /\ ~RecordQualifies(cmap, 0) /\ ~RecordQualifies(cmap, 1)
          /\ call.result.val.cmap =
               Ptr(cmap + readUint32(font.data, cmap + 4 + 8 * 2 + 4))

----------------------------------------------------------------------------
(* Properties of charCode2GlyphID, format 4 *)

\* the linear scan over the segments: the first segment whose endCode is
\* >= c decides
LinearScan4(segs, c) ==
    LET hits == {k \in 1..Len(segs) : segs[k].end >= c} IN
    IF hits = {} THEN 0
    ELSE LET k == CHOOSE m \in hits : \A n \in hits : m <= n
             s == segs[k]
         IN IF c < s.start THEN 0
            ELSE IF s.glyphs = << >>
                 THEN (c + ToInt16(s.delta)) % 65536
                 ELSE s.glyphs[c - s.start + 1]

\* C10: for every well-formed format-4 subtable and every code point,
\* charCode2GlyphID returns what the linear scan over the segments returns;
\* the single segment [65,90] with idDelta 0 maps 65 to 65 and 200 to 0.
C10_Format4EqualsLinearScan ==
    (pc = "charCode2GlyphID" /\ call.done) =>
        /\ ~call.result.thrown
        /\ call.result.val = LinearScan4(call.arg[1], call.arg[2])
        /\ (call.arg[1] = << [start |-> 65, end |-> 90, delta |-> 0,
                              glyphs |-> << >>] >>
              => /\ call.arg[2] = 65 => call.result.val = 65
                 /\ call.arg[2] = 200 => call.result.val = 0)

\* a lookup in a three-segment subtable that lands in the last segment and
\* goes through glyphIdArray
C10_Witness ==
    /\ pc = "charCode2GlyphID" /\ call.done
    /\ Len(call.arg[1]) = 3
    /\ call.arg[1][3].glyphs # << >>
    /\ call.arg[2] = 102
    /\ call.result.val = 9

----------------------------------------------------------------------------
(* Properties of charCode2GlyphID, formats 12 and 0 *)

\* the glyph of code c by the groups: startGlyphID + (c - startCharCode) of
\* the group holding c, 0 when no group holds it
GroupLookup(groups, c) ==
    LET hits == {k \in 1..Len(groups) :
                    groups[k].start <= c /\ c <= groups[k].end}
    IN IF hits = {} THEN 0
       ELSE LET k == CHOOSE m \in hits : TRUE
            IN groups[k].glyph + (c - groups[k].start)

\* C11: for every format-12 subtable with sorted, non-overlapping groups and
\* every code point c, charCode2GlyphID returns startGlyphID + (c -
\* startCharCode) of the group that holds c, and 0 when no group holds c.
C11_Format12EqualsGroupLookup ==
    (pc = "charCode2GlyphID" /\ call.done) =>
        /\ ~call.result.thrown
        /\ call.result.val = GroupLookup(call.arg[1], call.arg[2])

\* C12: for a format-0 subtable charCode2GlyphID returns, for every code
\* point c <= 255, byte c of the glyph index array as a glyph ID in 0..255,
\* and 0 for every c > 255.
C12_Format0ReturnsUnsignedByte ==
    (pc = "charCode2GlyphID" /\ call.done) =>
        /\ ~call.result.thrown
        /\ call.result.val =
             IF call.arg[2] <= 255 THEN call.arg[1][call.arg[2] + 1] ELSE 0

----------------------------------------------------------------------------
(* Properties of the error paths of getGlyphRects and getGlyphVertices *)

\* the format number of the subtable findAllTables selected
SelectedFormat == readUint16(font.data, info.cmap.off)

\* C13: when the selected cmap subtable has a format other than 0, 4 or 12,
\* getTTFAtlas fails with the unsupported-format error at the lookup of the
\* first character: no rectangle has been measured or packed, no bitmap
\* allocated, nothing rasterized.
C13_UnsupportedFormatFailsAtFirstLookup ==
    (info # NoInfo /\ SelectedFormat \notin {0, 4, 12}) =>
        /\ pc \in {"rects", "error"}
        /\ pc = "error" => err = "cmap format is not supported"
        /\ idx = 0
        /\ rects = [i \in Chars |-> NoRect]
        /\ has_missing_glyph = FALSE
        /\ atlas = NoAtlas
        /\ rendered = << >>
        /\ returned = << >>

\* a font whose selected subtable has format 6 has failed
C13_Witness ==
    /\ info # NoInfo
    /\ SelectedFormat = 6
    /\ pc = "error"
    /\ err = "cmap format is not supported"

----------------------------------------------------------------------------
(* Properties of getGlyphVertices *)

\* the call under SpecVertices has returned for the compound glyph
DecodedCompound ==
    /\ call.fn = "getGlyphVertices"
    /\ call.done
    /\ call.arg[3] = 2

\* the components the compound glyph was built from
Components == call.arg[2]

\* C14: decoding a compound glyph throws "Matching point not implemented..."
\* when a component record has ARGS_ARE_XY_VALUES clear, whatever its other
\* flags and whatever its glyph index refers to, once the components before
\* it have been decoded
C14_PointMatchingThrows ==
    (DecodedCompound /\ \E k \in 1..Len(Components) : ~Components[k].xy)
        => /\ call.result.thrown
           /\ call.result.msg = "Matching point not implemented..."

\* a second component placed by point matching that refers to the compound
\* glyph itself, after a first component placed by offsets
C14_Witness ==
    /\ DecodedCompound
    /\ Len(Components) = 2
    /\ Components[1].xy
    /\ ~Components[2].xy
    /\ Components[2].ref = 2
    /\ call.result.thrown

\* every component is placed by offsets, carries no scale flag and refers
\* to a simple glyph
PlainComponents ==
    \A k \in 1..Len(Components) :
        /\ Components[k].xy
        /\ Components[k].scale = << >>
        /\ Components[k].ref \in {0, 1}

\* the vertex list of simple glyph ref, as getGlyphVertices returns it
ComponentVertices(ref) == getGlyphVertices(font.data, info, ref, 0).val

\* vertex v with its end point, and its control point if it has one, moved
\* by (e, f); stored is TRUE for the coordinate as an int16_t holds it and
\* FALSE for the exact sum
Fit(v, stored) == IF stored THEN ToInt16(v) ELSE v

Moved(v, e, f, stored) ==
    IF v.type = QUAD
    THEN [type |-> v.type, x |-> Fit(v.x + e, stored),
          y |-> Fit(v.y + f, stored), cx |-> Fit(v.cx + e, stored),
          cy |-> Fit(v.cy + f, stored)]
    ELSE [type |-> v.type, x |-> Fit(v.x + e, stored),
          y |-> Fit(v.y + f, stored)]

\* the component lists of comps in order, each moved by its offsets
RECURSIVE MovedComponents(_, _)
MovedComponents(comps, stored) ==
    IF comps = << >> THEN << >>
    ELSE LET c == Head(comps)
             vs == ComponentVertices(c.ref)
         IN [k \in 1..Len(vs) |-> Moved(vs[k], c.e, c.f, stored)]
            \o MovedComponents(Tail(comps), stored)

RECURSIVE CountVertices(_)
CountVertices(comps) ==
    IF comps = << >> THEN 0
    ELSE Len(ComponentVertices(Head(comps).ref)) + CountVertices(Tail(comps))

\* C18: for a compound glyph whose components all have ARGS_ARE_XY_VALUES
\* and no scale flag, getGlyphVertices returns the components' vertex lists
\* in component order, every end point and control point moved by the
\* component's offsets and stored as int16_t (so moved exactly when the
\* moved coordinate fits int16_t), types unchanged; the count is the sum of
\* the components' counts
C18_CompoundIsTranslatedConcatenation ==
    (DecodedCompound /\ PlainComponents)
        => /\ ~call.result.thrown
           /\ call.result.val = MovedComponents(Components, TRUE)
           /\ Len(call.result.val) = CountVertices(Components)

\* two components of the same glyph with a control point, at (0, 0) and
\* (100, 0): twice the count, the second half shifted by 100 in x
C18_Witness ==
    /\ DecodedCompound
    /\ Len(Components) = 2
    /\ Components[1].ref = 0 /\ Components[2].ref = 0
    /\ Components[1].e = 0 /\ Components[1].f = 0 /\ Components[1].xy
    /\ Components[2].e = 100 /\ Components[2].f = 0 /\ Components[2].xy
    /\ ~call.result.thrown
    /\ LET vs == ComponentVertices(0)
           n == Len(vs)
       IN /\ Len(call.result.val) = 2 * n
          /\ \E k \in 1..n : vs[k].type = QUAD
          /\ \A k \in 1..n :
               /\ call.result.val[k] = vs[k]
               /\ call.result.val[n + k].x = vs[k].x + 100
               /\ call.result.val[n + k].y = vs[k].y

\* C18 as stated: every coordinate is moved by exactly the offsets
C18_TranslatedExactly ==
    (DecodedCompound /\ PlainComponents)
        => call.result.val = MovedComponents(Components, FALSE)

----------------------------------------------------------------------------
(* Properties of tesselateQuad *)

\* the control point of the call lies on the segment from p0 to p2
ControlOnChord ==
    LET a == call.arg
        cross == (a.x1 - a.x0) * (a.y2 - a.y0) - (a.y1 - a.y0) * (a.x2 - a.x0)
        dot == (a.x1 - a.x0) * (a.x2 - a.x0) + (a.y1 - a.y0) * (a.y2 - a.y0)
        len2 == (a.x2 - a.x0) * (a.x2 - a.x0) + (a.y2 - a.y0) * (a.y2 - a.y0)
    IN cross = 0 /\ 0 <= dot /\ dot <= len2

\* C19: when the control point lies on the chord from p0 to p2,
\* tesselateQuad makes no recursive call and appends the one point p2
C19_ChordControlPointNoRecursion ==
    (call.fn = "tesselateQuad" /\ call.done /\ ControlOnChord)
        => /\ call.result.calls = 0
           /\ call.result.points
                = <<[x |-> FromInt(call.arg.x2), y |-> FromInt(call.arg.y2)]>>

----------------------------------------------------------------------------
(* Properties of packRects *)

Packed == call.fn = "packRects" /\ call.done

\* the largest of rects[i].y + rects[i].h over the characters not flagged
\* missing, a negative h counted as 0 when floor is TRUE
LowestEdge(floor) ==
    MaxOf({rects[i].y + (IF floor /\ rects[i].h < 0 THEN 0 ELSE rects[i].h) :
             i \in {j \in Chars : ~rects[j].missing}})

\* C20: packRects returns width 256 and height 1 + the largest
\* rect.y + max(rect.h, 0) over the characters not flagged missing (which
\* is 1 + the largest rect.y + rect.h when no height is negative); the
\* bitmap holds width * height bytes, all 0
C20_AtlasSizeAndZeroBitmap ==
    Packed => /\ atlas.width = 256
              /\ atlas.height = 1 + LowestEdge(TRUE)
              /\ Len(call.result.val) = atlas.width * atlas.height
              /\ \A k \in 1..Len(call.result.val) : call.result.val[k] = 0

\* two shelves, a character flagged missing, heights not negative
C20_Witness ==
    /\ Packed
    /\ \E i \in Chars : rects[i].missing
    /\ \E i \in Chars : ~rects[i].missing /\ rects[i].y > padding
    /\ \A i \in Chars : rects[i].h >= 0
    /\ atlas.height = 1 + LowestEdge(FALSE)
    /\ Len(call.result.val) > 0

\* C20 as stated: the height is 1 + the largest rect.y + rect.h
C20_HeightIsLowestEdgePlusOne ==
    Packed => atlas.height = 1 + LowestEdge(FALSE)

----------------------------------------------------------------------------
(* Properties of renderGlyph *)

Rendered == call.fn = "renderGlyph" /\ call.done

\* the pixels of the glyph box: column i, row j
BoxPixels ==
    (0..(call.arg.box.x1 - call.arg.box.x0 - 1))
        \X (0..(call.arg.box.y1 - call.arg.box.y0 - 1))

\* the byte of pixel (i, j) of the glyph box after the call
PixelByte(i, j) ==
    call.result.val[call.arg.at + j * call.arg.imgWidth + i]

\* the segments of the contours: <<c, k>> runs from point k of contour c to
\* the next point, the last point being followed by the first
Segments ==
    UNION {{<<c, k>> : k \in 1..Len(call.arg.contours[c])} :
             c \in 1..Len(call.arg.contours)}

From(s) == call.arg.contours[s[1]][s[2]]

To(s) ==
    call.arg.contours[s[1]][(s[2] % Len(call.arg.contours[s[1]])) + 1]

\* twice the cross product of the segment with the vector from its start
\* to the point (x2/2, y2/2)
Cross2(s, x2, y2) ==
    (To(s).x - From(s).x) * (y2 - 2 * From(s).y)
        - (x2 - 2 * From(s).x) * (To(s).y - From(s).y)

\* the winding number of the contours about the centre of pixel (i, j)
Winding(i, j) ==
    LET x2 == 2 * (call.arg.box.x0 + i) + 1
        y2 == 0 - (2 * (call.arg.box.y0 + j) + 1)
        up == {s \in Segments : /\ 2 * From(s).y < y2
                                /\ y2 < 2 * To(s).y
                                /\ Cross2(s, x2, y2) > 0}
        down == {s \in Segments : /\ 2 * To(s).y < y2
                                  /\ y2 < 2 * From(s).y
                                  /\ Cross2(s, x2, y2) < 0}
    IN Cardinality(up) - Cardinality(down)

\* some segment passes through the inside of pixel (i, j): with whole-number
\* points and slopes 1/2, 1 and 2, a segment that enters the pixel holds one
\* of its inner quarter points
EdgePasses(i, j) ==
    \E s \in Segments, a \in 1..3, b \in 1..3 :
        LET x4 == 4 * (call.arg.box.x0 + i) + a
            y4 == 0 - (4 * (call.arg.box.y0 + j) + b)
        IN /\ (To(s).x - From(s).x) * (y4 - 4 * From(s).y)
                = (x4 - 4 * From(s).x) * (To(s).y - From(s).y)
           /\ 4 * Min(From(s).x, To(s).x) <= x4
           /\ x4 <= 4 * Max(From(s).x, To(s).x)
           /\ 4 * Min(From(s).y, To(s).y) <= y4
           /\ y4 <= 4 * Max(From(s).y, To(s).y)

\* C15: a pixel through which no edge passes and whose winding number is
\* not zero gets the byte 255, whatever the orientation of the contours
C15_NonZeroWindingIsOpaque ==
    Rendered =>
        \A px \in BoxPixels :
            (~EdgePasses(px[1], px[2]) /\ Winding(px[1], px[2]) # 0)
                => PixelByte(px[1], px[2]) = 255

\* int((row[i] + sum)*256.f) for every pixel of the box, before the clamp
ValuesBeforeClamp ==
    GlyphRows(WithSentinel(SortBySy(EdgesOf(CurveSetOf(call.arg.contours),
                                            call.arg.box))),
              call.arg.box, 0, << >>, 1)

\* C16: every byte of the image is in 0..255 after renderGlyph, and a pixel
\* of winding number 0 through which no edge passes gets the byte 0, the
\* signed contributions of the edges to its left adding up to exactly 0
C16_BytesInRangeAndOutsideIsZero ==
    Rendered =>
        /\ \A q \in DOMAIN call.result.val : call.result.val[q] \in 0..255
        /\ LET values == ValuesBeforeClamp
           IN \A px \in BoxPixels :
                (~EdgePasses(px[1], px[2]) /\ Winding(px[1], px[2]) = 0)
                    => /\ PixelByte(px[1], px[2]) = 0
                       /\ values[px[2] + 1][px[1] + 1] = 0

\* a pixel of winding number 0 right of an opaque pixel of its row, in a
\* glyph of two contours
C16_Witness ==
    /\ Rendered
    /\ Len(call.arg.contours) = 2
    /\ \E px \in BoxPixels, left \in BoxPixels :
         /\ left[2] = px[2]
         /\ left[1] < px[1]
         /\ PixelByte(left[1], left[2]) = 255
         /\ ~EdgePasses(px[1], px[2])
         /\ Winding(px[1], px[2]) = 0
         /\ PixelByte(px[1], px[2]) = 0

\* the glyph is the one contour RectCW(a, b, c, d)
OneClockwiseRect(a, b, c, d) ==
    /\ a < c
    /\ b < d
    /\ call.arg.contours = <<RectCW(a, b, c, d)>>

\* image position q is a pixel of the rectangle with corners (a, b), (c, d)
InRect(q, a, b, c, d) ==
    LET x == call.arg.box.x0 + (q % call.arg.imgWidth) - padding
        y == call.arg.box.y0 + (q \div call.arg.imgWidth) - padding
    IN /\ a <= x /\ x < c
       /\ 0 - d <= y /\ y < 0 - b

\* C17: a single clockwise axis-aligned rectangle with whole-number corners
\* renders 255 in every pixel of the rectangle and leaves 0 in every other
\* pixel of the image around it
C17_ClockwiseRectangleIsOpaque ==
    Rendered =>
        \A a \in 1..6, b \in 1..6, c \in 1..6, d \in 1..6 :
            OneClockwiseRect(a, b, c, d)
                => \A q \in DOMAIN call.result.val :
                     call.result.val[q]
                         = (IF InRect(q, a, b, c, d) THEN 255 ELSE 0)

\* the unit square in a box one pixel wider on every side: its pixel is
\* opaque, the eight pixels around it are 0
C17_Witness ==
    /\ Rendered
    /\ OneClockwiseRect(1, 1, 2, 2)
    /\ call.arg.box = [x0 |-> 0, y0 |-> 0 - 3, x1 |-> 3, y1 |-> 0]
    /\ PixelByte(1, 1) = 255
    /\ \A px \in BoxPixels : px # <<1, 1>> => PixelByte(px[1], px[2]) = 0

\* C21: decoding a glyph outline ends for every glyph of every font: no
\* call of getGlyphVertices recurses until the stack is exhausted
C21_DecodingTerminates ==
    (call.fn = "getGlyphVertices" /\ call.done)
        => call.result # StackExhausted

----------------------------------------------------------------------------
(* Properties of renderGlyphs *)

\* C22: within getTTFAtlas the error "Missing glyph encountered too early"
\* is never raised: when renderGlyphs reaches a character flagged missing,
\* missing_glyph is a lower character with glyph ID 0 that has been
\* rasterized
C22_OrderingErrorUnreachable ==
    /\ err # "Missing glyph encountered too early"
    /\ (pc = "render" /\ rects[idx].missing)
           => /\ missing_glyph \in 0..(idx - 1)
              /\ GlyphOf(missing_glyph) = 0
              /\ ~rects[missing_glyph].missing
              /\ RenderedFor(missing_glyph) # {}

\* renderGlyphs at a flagged character whose glyph-0 character is not the
\* first of the range
C22_Witness ==
    /\ pc = "render"
    /\ rects[idx].missing
    /\ missing_glyph > 0
    /\ missing_glyph < idx

OrderingError == "Missing glyph encountered too early"

\* a character with glyph ID 0 has been rasterized earlier in the pass
ZeroGlyphRasterized == \E k \in 1..Len(rendered) : rendered[k].glyphID = 0

\* C23: renderGlyphs raises the ordering error exactly when it reaches a
\* character flagged missing while no character with glyph ID 0 has been
\* rasterized earlier in the pass; otherwise the flagged character gets a
\* copy of the CharPosition of a rasterized glyph-0 character and nothing
\* is rasterized for it
C23_OrderingErrorExactlyWhenNoZeroGlyph ==
    [][ /\ (err' = OrderingError /\ err # OrderingError)
            => (pc = "render" /\ rects[idx].missing /\ ~ZeroGlyphRasterized)
        /\ (pc = "render" /\ rects[idx].missing)
            => IF ~ZeroGlyphRasterized
               THEN /\ pc' = "error"
                    /\ err' = OrderingError
                    /\ rendered' = rendered
                    /\ atlas' = atlas
               ELSE /\ err' = err
                    /\ pc' # "error"
                    /\ rendered' = rendered
                    /\ \E k \in 1..Len(rendered) :
                         /\ rendered[k].glyphID = 0
                         /\ atlas' = [atlas EXCEPT !.charPositions[idx] =
                              atlas.charPositions[rendered[k].char]]
      ]_vars

\* the ordering error raised after other characters were rasterized
C23_Witness ==
    /\ pc = "error"
    /\ err = OrderingError
    /\ Len(rendered) > 0
    /\ rects[idx].missing

----------------------------------------------------------------------------
(* Properties of the row sweep of renderGlyph *)

Swept == call.fn = "sweep" /\ call.done

\* the places 1..n of the edges proper; place n + 1 holds the sentinel
EdgePlaces == 1..(Len(call.arg.edges) - 1)

SweepRowTop(j) == (call.arg.box.y0 + j) * Sub

\* the edges that cross row j: sy <= rowBot and ey > rowTop
Crossing(j) ==
    {i \in EdgePlaces : /\ call.arg.edges[i].sy <= SweepRowTop(j) + Sub
                        /\ call.arg.edges[i].ey > SweepRowTop(j)}

\* the edges that start at or above the bottom of row j
StartedBy(j) ==
    {i \in EdgePlaces : call.arg.edges[i].sy <= SweepRowTop(j) + Sub}

ActiveSet(r) == {r.active[k] : k \in 1..Len(r.active)}

NoEdgeTwice(r) ==
    \A k, l \in 1..Len(r.active) : r.active[k] = r.active[l] => k = l

\* C24: at the moment row j is rasterized the active list holds, once each,
\* the edges with sy <= rowBot that have ey > rowTop or, in row 0 only, any
\* ey; the sweep pointer only moves forward, every edge it has passed was
\* pushed once, and it never passes the sentinel
C24_ActiveListHoldsCrossingEdges ==
    Swept =>
        \A j \in 0..(Len(call.result.val) - 1) :
            LET r == call.result.val[j + 1] IN
            /\ NoEdgeTwice(r)
            /\ ActiveSet(r) = IF j = 0 THEN StartedBy(0) ELSE Crossing(j)
            /\ r.e = Cardinality(StartedBy(j)) + 1
            /\ r.e <= Len(call.arg.edges)
            /\ j > 0 => r.e >= call.result.val[j].e

\* a sweep in which a row below the first dropped an edge that ended and
\* still holds another
C24_Witness ==
    /\ Swept
    /\ \E j \in 1..(Len(call.result.val) - 1) :
         /\ ActiveSet(call.result.val[j]) \ ActiveSet(call.result.val[j + 1])
              # {}
         /\ ActiveSet(call.result.val[j + 1]) # {}

\* C24 as stated: in every row the active list holds exactly the edges with
\* sy <= rowBot and ey > rowTop, once each
C24_ActiveListIsExactlyCrossing ==
    Swept =>
        \A j \in 0..(Len(call.result.val) - 1) :
            /\ NoEdgeTwice(call.result.val[j + 1])
            /\ ActiveSet(call.result.val[j + 1]) = Crossing(j)

----------------------------------------------------------------------------
(* Properties of the vertex stream of a simple glyph *)

DecodedSimple ==
    /\ call.fn = "getGlyphVertices"
    /\ call.done
    /\ call.arg[3] = 0

\* the places of the START vertices in a vertex list
Starts(out) == {k \in 1..Len(out) : out[k].type = START}

\* the place of the last vertex of the contour that starts at place k
LastOf(out, k) ==
    CHOOSE l \in k..Len(out) :
        /\ \A m \in (k + 1)..l : out[m].type # START
        /\ l = Len(out) \/ out[l + 1].type = START

\* C25: the vertex list of a simple glyph whose contours have two points or
\* more is, contour by contour in the order of the glyph record, one START
\* followed by one or more LINE or QUAD vertices, and the end point of the
\* last vertex of each contour is the point of its START
C25_ContourIsStartThenClosedPath ==
    DecodedSimple =>
        LET out == call.result.val IN
        /\ ~call.result.thrown
        /\ Cardinality(Starts(out)) = Len(call.arg[1].ends)
        /\ out[1].type = START
        /\ \A k \in Starts(out) :
             LET l == LastOf(out, k) IN
             /\ l > k
             /\ \A m \in (k + 1)..l : out[m].type \in {LINE, QUAD}
             /\ out[l].x = out[k].x
             /\ out[l].y = out[k].y

\* a decoded glyph of two contours, the second of which starts off the
\* curve, is started on its second point and ends on a control point
C25_Witness ==
    /\ DecodedSimple
    /\ Len(call.arg[1].ends) = 2
    /\ ~call.arg[1].pts[4].on
    /\ call.arg[1].pts[5].on
    /\ ~call.arg[1].pts[7].on
    /\ Cardinality(Starts(call.result.val)) = 2
    /\ \E k \in Starts(call.result.val) :
         /\ k > 1
         /\ call.result.val[k].x = call.arg[1].pts[5].x
         /\ call.result.val[k].y = call.arg[1].pts[5].y

----------------------------------------------------------------------------
(* Properties of tesselateQuad at its depth cap *)

\* C26: every call of tesselateQuad from linearizeCurves appends at least
\* one point, and the last point it appends is (x2, y2)
C26_LastPointIsEndOfCurve ==
    (call.fn = "tesselateQuad" /\ call.done) =>
        /\ Len(call.result.points) >= 1
        /\ call.result.points[Len(call.result.points)]
             = [x |-> FromInt(call.arg.x2), y |-> FromInt(call.arg.y2)]

----------------------------------------------------------------------------
(* Properties of the pixel write *)

PixelWritten == call.fn = "pixel" /\ call.done

\* 256 * c in units of 1/Fine, c being the accumulated coverage
Coverage256 == (call.arg.local + call.arg.sum) * 256

\* C27: the byte written is 256 * c with its fraction dropped, clamped to
\* 0..255: 0 when 256 * c < 1, 255 when 256 * c >= 255, and otherwise the
\* byte b with b <= 256 * c < b + 1
C27_ByteIsTruncatedCoverage ==
    PixelWritten =>
        LET b == call.result.val IN
        /\ b \in 0..255
        /\ Coverage256 < Fine => b = 0
        /\ Coverage256 >= 255 * Fine => b = 255
        /\ (Coverage256 >= Fine /\ Coverage256 < 255 * Fine)
             => (b * Fine <= Coverage256 /\ Coverage256 < (b + 1) * Fine)

\* a coverage of 1.75 / 256, written as the byte 1
C27_Witness ==
    /\ PixelWritten
    /\ Coverage256 * 4 = 7 * Fine
    /\ call.result.val = 1

\* C27 as stated: the byte is clamp(r, 0, 255) for an integer r nearest to
\* 256 * c
C27_ByteIsRoundedCoverage ==
    PixelWritten =>
        \E r \in (0 - 260)..520 :
            /\ 2 * Abs(Coverage256 - r * Fine) <= Fine
            /\ call.result.val = Clamp(r)

----------------------------------------------------------------------------
(* Properties of the indexes used by rasterizeEdge *)

\* C28: every index at which rasterizeEdge reads or writes row[] or
\* rowSum[], in any row and for any edge of the active list, is in
\* 0..width-1
C28_IndexesInsideRow ==
    Swept =>
        \A j \in 1..Len(call.result.val) :
            call.result.val[j].touched
                \subseteq 0..(call.arg.box.x1 - call.arg.box.x0 - 1)

----------------------------------------------------------------------------
(* Properties of the bytes renderGlyphs stores in the atlas bitmap *)

\* the bytes of the bitmap that renderGlyphs stored for the k-th character
\* it rasterized: renderGlyph(info, atlas.img.get() + r.x + r.y*atlas.width,
\* atlas.width, scale, glyphID)
WrittenFor(k) ==
    renderGlyphWrites(font.data, info,
                      getScale(font.data, info, font.fontSize),
                      rendered[k].glyphID,
                      rendered[k].x + rendered[k].y * atlas.width,
                      atlas.width)

\* byte q of the bitmap is the pixel of column q % width and row
\* q \div width; the pixels of the rectangle [x, x + w) x [y, y + h) of r
InsideRect(q, r) ==
    /\ q >= 0
    /\ r.x <= q % atlas.width /\ q % atlas.width < r.x + r.w
    /\ r.y <= q \div atlas.width /\ q \div atlas.width < r.y + r.h

\* C29: every byte stored while a character is rasterized is a pixel of
\* that character's own rectangle, so that after getTTFAtlas no byte
\* outside all the rectangles has been stored to
C29_WritesInsideOwnRect ==
    pc = "done" =>
        \A k \in 1..Len(rendered) :
            \A q \in WrittenFor(k) : InsideRect(q, rects[rendered[k].char])

----------------------------------------------------------------------------
(* Properties of packRects on characters flagged missing *)

\* the heights the sort of packRects compares when the w and h of the
\* characters flagged missing, which getGlyphRects leaves unassigned, hold g
ComparedHeights(rs, g) ==
    [i \in Chars |-> IF rs[i].missing THEN g[i] ELSE rs[i].h]

\* C30: when some characters are flagged missing, the rectangles and the
\* atlas that packRects computes are the same whatever the unassigned
\* heights of those characters hold and whatever arrangement the sort
\* leaves, so that two runs on the same font give the same placement
C30_PlacementIndependentOfMissing ==
    (Packed /\ \E i \in Chars : call.arg[i].missing) =>
        \A g \in [Chars -> IndeterminateH] :
            \A order \in SortedOrders(ComparedHeights(call.arg, g)) :
                /\ packRects(call.arg, order).rects = rects
                /\ packRects(call.arg, order).atlas = atlas

====
